---- MODULE Spec2Model ----
(***************************************************************************)
(* Model of the indexing, similarity-search, recommendation and embedding  *)
(* code of the job-recommendation backend (src/Lambda-Functions).          *)
(*                                                                         *)
(* The OpenSearch store, the Bedrock provider and S3 are the environment:  *)
(* every call to them either succeeds or raises, chosen with \E.           *)
(***************************************************************************)
EXTENDS Integers, Sequences, FiniteSets, TLC

VARIABLES
    jobIndex,   \* job-index: a function from the stored document ids to documents
    cvIndex,    \* cv-index: a function from the stored document ids to documents
    jobCall,    \* the last index_job_document call: arguments, outcome, store writes
    cvCall,     \* the last index_cv_document call: arguments, outcome, store writes
    srch,       \* the last search_similar_jobs call: arguments, path, result
    rec,        \* the last recommendation request: lookup, search, response
    svc,        \* the EmbeddingService instance: current_model, embedding_dims
    emb,        \* the _initialize_model or generate_embedding call in progress
    hc,         \* the last status request: store calls, status record, response
    qry,        \* the last handle_opensearch_query call: arguments, response
    ext,        \* the last two job cards extracted by the scraper
    cw,         \* concurrent index_job_document calls, and the last accepted write
    scr,        \* the last job the scraper processed: text, embedding outcome, document
    lam,        \* the last lambda_handler invocation: event, route, response
    cvp,        \* the last process_cv_record call: record, profile, result
    bat,        \* the scraping run in progress: jobs, position, counters, writes
    lvl         \* the last _extract_experience_level call: text, result

vars == <<jobIndex, cvIndex, jobCall, cvCall, srch, rec, svc, emb, hc, qry, ext, cw, scr, lam, cvp, bat, lvl>>

----------------------------------------------------------------------------
(* Bounds *)

\* Longest list an embedding field holds in the model.
MaxDim == 1

\* Largest scraped_date of a stored job posting.
MaxDate == 2

\* Largest size passed to search_similar_jobs by a direct caller.
MaxSize == 2

JobIds == {"j1", "j2"}
UserIds == {"u1", "u2"}

----------------------------------------------------------------------------
(* Python values of an embedding field.  A value is a record: ty is the     *)
(* Python type, n the value of an int or the length of a str, items the     *)
(* entries of a list.  An entry is a number ("num"), None ("null") or a     *)
(* string ("str").  ABSENT stands for "the key is not in the dict".         *)

ABSENT == [ty |-> "absent", n |-> 0, items |-> <<>>]
PyNone == [ty |-> "NoneType", n |-> 0, items |-> <<>>]
PyInt(k) == [ty |-> "int", n |-> k, items |-> <<>>]
PyStr(k) == [ty |-> "str", n |-> k, items |-> <<>>]
PyList(s) == [ty |-> "list", n |-> 0, items |-> s]

EntryValues == {"num", "null", "str"}

SeqsUpTo(S, k) == UNION {[1..m -> S] : m \in 0..k}

\* Every value a caller can put under the embedding key.
EmbeddingValues ==
    {PyNone, PyInt(0), PyInt(5), PyStr(0), PyStr(3)}
        \cup {PyList(s) : s \in SeqsUpTo(EntryValues, MaxDim)}

\* The vectors the embedding service hands out: non-empty lists of numbers.
ValidVectors == {PyList(s) : s \in (SeqsUpTo({"num"}, MaxDim) \ {<<>>})}

\* bool(v): None, 0, "" and [] are falsy.
Truthy(v) ==
    CASE v.ty = "NoneType" -> FALSE
      [] v.ty = "int" -> v.n # 0
      [] v.ty = "str" -> v.n > 0
      [] v.ty = "list" -> Len(v.items) > 0
      [] OTHER -> FALSE

\* hasattr(v, '__len__')
HasLen(v) == v.ty \in {"str", "list"}

\* len(v), for a value that has one
PyLen(v) == IF v.ty = "list" THEN Len(v.items) ELSE v.n

\* isinstance(x, (int, float))
IsNumber(x) == x = "num"

\* The data-model invariant of an embedding field (spec section 3): a
\* non-empty list with no null and only numeric entries.
ValidVector(v) ==
    /\ v.ty = "list"
    /\ Len(v.items) > 0
    /\ \A i \in 1..Len(v.items) : v.items[i] = "num"

----------------------------------------------------------------------------
(* The store (OpenSearch client).  A write is accepted or raises; the       *)
(* exception is modelled by the set of the words of interest its message    *)
(* contains.                                                                *)

StoreErrors ==
    { [kind |-> "TransportError", mentions |-> m] :
        m \in {{}, {"job_embedding", "knn_vector"}, {"null"}} }

NoError == [kind |-> "none", mentions |-> {}]

\* A store that keeps the document it already holds under an id.
Upsert_first_write_wins(index, id, body) ==
    [x \in DOMAIN index \cup {id} |-> IF x \in DOMAIN index THEN index[x] ELSE body]

\* A store that updates field by field: a key the new body lacks keeps the
\* stored value.
Upsert_merge_fields(index, id, body) ==
    [x \in DOMAIN index \cup {id} |->
        IF x # id THEN index[x]
        ELSE IF id \in DOMAIN index /\ body.job_embedding.ty = "absent"
             THEN [body EXCEPT !.job_embedding = index[id].job_embedding]
             ELSE body]

\* client.index(index, id, body, refresh=True) when the store accepts it.
Upsert(index, id, body) ==
    [x \in DOMAIN index \cup {id} |-> IF x = id THEN body ELSE index[x]]

----------------------------------------------------------------------------
(* index_job_document *)

\* The documents handed to index_job_document: as _process_and_embed_job
\* builds them (job_scraper.py 370-418) a document with an embedding says
\* 'success' and one without names why; the embedding itself is arbitrary.
JobDocuments ==
    {[job_embedding |-> e,
      embedding_status |-> IF e = ABSENT THEN "skipped_short_text" ELSE "success",
      scraped_date |-> 1] : e \in EmbeddingValues \cup {ABSENT}}

\* opensearch_manager.py 175-180
embedding_is_valid(embedding) ==
    /\ embedding.ty # "NoneType"
    /\ embedding.ty = "list"
    /\ Len(embedding.items) > 0
    /\ \A i \in 1..Len(embedding.items) :
          IsNumber(embedding.items[i]) /\ embedding.items[i] # "null"

\* opensearch_manager.py 160-200: the copy that is sent to the store.
doc_to_index(document) ==
    IF document.job_embedding # ABSENT /\ ~embedding_is_valid(document.job_embedding)
    THEN [document EXCEPT !.job_embedding = ABSENT,
                          !.embedding_status = "invalid_embedding_removed"]
    ELSE document

\* opensearch_manager.py 220
embedding_related(e) ==
    \/ "job_embedding" \in e.mentions
    \/ "knn_vector" \in e.mentions
    \/ "null" \in e.mentions

\* A retry that changes the status but sends the embedding again.
doc_retry_keeps_embedding(document) ==
    [document EXCEPT !.embedding_status = "removed_due_to_indexing_error"]

\* A retry that drops the embedding and leaves the status as it was.
doc_retry_keeps_status(document) ==
    [document EXCEPT !.job_embedding = ABSENT]

\* opensearch_manager.py 223-224
doc_retry(document) ==
    [document EXCEPT !.job_embedding = ABSENT,
                     !.embedding_status = "removed_due_to_indexing_error"]

\* The dicts of a call of index_job_document: the caller's, the deep copy
\* of line 160 and the dict the comprehension of line 223 builds.
JobObjects == {"caller", "copy", "retry"}

\* A validation that works on the argument itself.
validated_object_is_argument == "caller"

\* opensearch_manager.py 160: the dict the name doc_to_index is bound to.
validated_object == "copy"

\* opensearch_manager.py 160-198 and 223-224: the dicts when the call is
\* over.  'del' and the assignment of embedding_status (195, 198) act on
\* the dict doc_to_index is bound to; the retry reads the caller's dict as
\* it is by then and sets embedding_status on its own new dict.
heap_after_index_job(document) ==
    LET h0 == [o \in JobObjects |-> document]
        h1 == [h0 EXCEPT ![validated_object] = doc_to_index(h0[validated_object])]
    IN  [h1 EXCEPT !["retry"] = doc_retry(h1["caller"])]

\* The caller's dict after the call.
caller_document(document) == heap_after_index_job(document)["caller"]

NoJobCall ==
    [job_id |-> "none", document |-> [job_embedding |-> ABSENT,
                                      embedding_status |-> "absent",
                                      scraped_date |-> 0],
     caller_document |-> [job_embedding |-> ABSENT, embedding_status |-> "absent",
                          scraped_date |-> 0],
     outcome |-> "none", first_exc |-> NoError, exc |-> NoError, writes |-> <<>>,
     result |-> "none"]

\* The 'result' of the response of an accepted client.index.
IndexResult(index, id) == IF id \in DOMAIN index THEN "updated" ELSE "created"

\* opensearch_manager.py 155-239.  writes lists the bodies handed to
\* client.index, first_exc is the exception of the first write, exc the
\* exception the call raises.
index_job_document(job_id, document) ==
    \/ \* 205-214: the first write is accepted
       /\ jobIndex' = Upsert(jobIndex, job_id, doc_to_index(document))
       /\ jobCall' = [job_id |-> job_id, document |-> document,
                      caller_document |-> caller_document(document),
                      outcome |-> "returned", first_exc |-> NoError, exc |-> NoError,
                      writes |-> <<doc_to_index(document)>>,
                      result |-> IndexResult(jobIndex, job_id)]
    \/ \* 238-239: the first write raises an error that is not embedding-related
       \E e \in StoreErrors :
          /\ ~embedding_related(e)
          /\ jobIndex' = jobIndex
          /\ jobCall' = [job_id |-> job_id, document |-> document,
                      caller_document |-> caller_document(document),
                         outcome |-> "raised", first_exc |-> e, exc |-> e,
                         writes |-> <<doc_to_index(document)>>, result |-> "none"]
    \/ \* 220-234: embedding-related error, the retry is accepted
       \E e \in StoreErrors :
          /\ embedding_related(e)
          /\ jobIndex' = Upsert(jobIndex, job_id, doc_retry(document))
          /\ jobCall' = [job_id |-> job_id, document |-> document,
                      caller_document |-> caller_document(document),
                         outcome |-> "returned", first_exc |-> e, exc |-> NoError,
                         writes |-> <<doc_to_index(document), doc_retry(document)>>,
                         result |-> IndexResult(jobIndex, job_id)]
    \/ \* 235-237: embedding-related error, the retry raises too
       \E e \in StoreErrors, retry_error \in StoreErrors :
          /\ embedding_related(e)
          /\ jobIndex' = jobIndex
          /\ jobCall' = [job_id |-> job_id, document |-> document,
                      caller_document |-> caller_document(document),
                         outcome |-> "raised", first_exc |-> e, exc |-> retry_error,
                         writes |-> <<doc_to_index(document), doc_retry(document)>>,
                         result |-> "none"]

IndexJob ==
    /\ \E job_id \in JobIds, document \in JobDocuments :
          index_job_document(job_id, document)
    /\ UNCHANGED <<cvIndex, cvCall, srch, rec, svc, emb, hc, qry, ext, cw, scr, lam, cvp, bat, lvl>>

----------------------------------------------------------------------------
(* _process_and_embed_job and the scraper's loop *)

\* job_scraper.py 385: len(embedding_text.strip()) >= 20
MinJobTextLength == 20

\* The length of the stripped embedding text of a job.
JobTextLengths == {19, 20}

\* What generate_embedding gives the scraper: it raises, or returns a
\* value; the scraper checks the value itself (390-393) and does not rely
\* on the checks of the service.
GenerateException == [ty |-> "exception", n |-> 0, items |-> <<>>]

GenerateOutcomes == {GenerateException} \cup EmbeddingValues

\* job_scraper.py 390-393
job_embedding_ok(job_embedding) ==
    /\ job_embedding.ty # "NoneType"
    /\ job_embedding.ty = "list"
    /\ Len(job_embedding.items) > 0
    /\ \A i \in 1..Len(job_embedding.items) :
          IsNumber(job_embedding.items[i]) /\ job_embedding.items[i] # "null"

\* job_scraper.py 362-426: the document of a job whose text has the given
\* length, for the given outcome of generate_embedding.  Every branch sets
\* embedding_status; job_embedding is set with 'success' only.
_process_and_embed_job(text_length, generated) ==
    IF text_length >= MinJobTextLength
    THEN IF generated = GenerateException
         THEN [job_embedding |-> ABSENT, embedding_status |-> "failed_exception",
               scraped_date |-> 1]
         ELSE IF job_embedding_ok(generated)
              THEN [job_embedding |-> generated, embedding_status |-> "success",
                    scraped_date |-> 1]
              ELSE [job_embedding |-> ABSENT,
                    embedding_status |-> "failed_invalid_embedding",
                    scraped_date |-> 1]
    ELSE [job_embedding |-> ABSENT, embedding_status |-> "skipped_short_text",
          scraped_date |-> 1]

NoScrape ==
    [job_id |-> "none", text_length |-> 0, generated |-> ABSENT,
     document |-> [job_embedding |-> ABSENT, embedding_status |-> "absent",
                   scraped_date |-> 0]]

\* job_scraper.py 152-170: one round of the loop: the job is processed and
\* its document handed to index_job_document; an exception of the write is
\* logged and the loop goes on.  generate_embedding is called only for a
\* text that is long enough.
ScrapeJob ==
    /\ \E job_id \in JobIds, text_length \in JobTextLengths,
          generated \in GenerateOutcomes :
          /\ text_length < MinJobTextLength => generated = GenerateException
          /\ scr' = [job_id |-> job_id, text_length |-> text_length,
                     generated |-> generated,
                     document |-> _process_and_embed_job(text_length, generated)]
          /\ index_job_document(job_id, _process_and_embed_job(text_length, generated))
    /\ UNCHANGED <<cvIndex, cvCall, srch, rec, svc, emb, hc, qry, ext, cw, lam, cvp, bat, lvl>>

----------------------------------------------------------------------------
(* index_job_document, one store call at a time, for concurrent callers *)

\* Two Lambda invocations (a scheduled scrape and a manual one) that run
\* index_job_document at the same time.
Writers == {1, 2}

\* The documents of writer w: scraped_date tells the writers apart.
WriterDocuments(w) ==
    {[job_embedding |-> e,
      embedding_status |-> IF e = ABSENT THEN "skipped_short_text" ELSE "success",
      scraped_date |-> w] : e \in ValidVectors \cup {ABSENT, PyList(<<"null">>)}}

NoDocument == [job_embedding |-> ABSENT, embedding_status |-> "absent", scraped_date |-> 0]

IdleWriter == [pc |-> "idle", job_id |-> "none", document |-> NoDocument,
               writes |-> 0, outcome |-> "none"]

NoWrite == [writer |-> 0, body |-> NoDocument]

NoWriters ==
    [proc |-> [w \in Writers |-> IdleWriter],
     last |-> [id \in JobIds |-> NoWrite]]

\* An accepted client.index of writer w: the store replaces the document,
\* and the write is the last one of its id.
AcceptWrite(w, body, pc) ==
    LET p == cw.proc[w] IN
    /\ jobIndex' = Upsert(jobIndex, p.job_id, body)
    /\ cw' = [proc |-> [cw.proc EXCEPT ![w] = [p EXCEPT !.pc = pc,
                                                         !.writes = p.writes + 1,
                                                         !.outcome = "returned"]],
              last |-> [cw.last EXCEPT ![p.job_id] = [writer |-> w, body |-> body]]]

\* opensearch_manager.py 155-200: a call starts; the sanitised copy is local.
WriterBegins(w) ==
    /\ cw.proc[w].pc \in {"idle", "done"}
    /\ \E job_id \in JobIds, document \in WriterDocuments(w) :
          cw' = [cw EXCEPT !.proc[w] = [pc |-> "first_write", job_id |-> job_id,
                                        document |-> document, writes |-> 0,
                                        outcome |-> "none"]]
    /\ UNCHANGED <<jobIndex, cvIndex, jobCall, cvCall, srch, rec, svc, emb, hc, qry, ext, scr, lam, cvp, bat, lvl>>

\* opensearch_manager.py 205-239: the first client.index is accepted, or
\* raises an error that ends the call, or one that leads to the retry.
WriterFirstWrite(w) ==
    /\ cw.proc[w].pc = "first_write"
    /\ \/ AcceptWrite(w, doc_to_index(cw.proc[w].document), "done")
       \/ \E e \in StoreErrors :
             /\ jobIndex' = jobIndex
             /\ cw' = [cw EXCEPT !.proc[w].writes = 1,
                                 !.proc[w].pc =
                                     IF embedding_related(e) THEN "retry_write" ELSE "done",
                                 !.proc[w].outcome =
                                     IF embedding_related(e) THEN "none" ELSE "raised"]
    /\ UNCHANGED <<cvIndex, jobCall, cvCall, srch, rec, svc, emb, hc, qry, ext, scr, lam, cvp, bat, lvl>>

\* opensearch_manager.py 223-237: the second client.index.
WriterRetryWrite(w) ==
    /\ cw.proc[w].pc = "retry_write"
    /\ \/ AcceptWrite(w, doc_retry(cw.proc[w].document), "done")
       \/ /\ jobIndex' = jobIndex
          /\ cw' = [cw EXCEPT !.proc[w].writes = 2,
                              !.proc[w].pc = "done",
                              !.proc[w].outcome = "raised"]
    /\ UNCHANGED <<cvIndex, jobCall, cvCall, srch, rec, svc, emb, hc, qry, ext, scr, lam, cvp, bat, lvl>>

NextWriters ==
    \E w \in Writers : WriterBegins(w) \/ WriterFirstWrite(w) \/ WriterRetryWrite(w)

----------------------------------------------------------------------------
(* index_cv_document *)

\* The documents handed to index_cv_document(user_id, ...): the user_id and
\* cv_text keys may be missing, the embedding is arbitrary.
CvDocuments(user_id) ==
    [user_id : {user_id, "absent"},
     cv_text : {"absent", "text"},
     cv_embedding : EmbeddingValues \cup {ABSENT}]

NoCvCall ==
    [user_id |-> "none", document |-> [user_id |-> "absent", cv_text |-> "absent",
                                       cv_embedding |-> ABSENT],
     caller_document |-> [user_id |-> "absent", cv_text |-> "absent",
                          cv_embedding |-> ABSENT],
     outcome |-> "none", exc |-> NoError, writes |-> <<>>]

\* A check that looks at user_id only.
missing_required_field_user_id_only(document) ==
    document.user_id = "absent"

\* opensearch_manager.py 93-96
missing_required_field(document) ==
    document.user_id = "absent" \/ document.cv_text = "absent"

\* opensearch_manager.py 101: not embedding or len(embedding) == 0.
\* len() of a truthy value without a length (a non-zero int) raises TypeError.
cv_embedding_check(embedding) ==
    IF ~Truthy(embedding) THEN "remove"
    ELSE IF ~HasLen(embedding) THEN "TypeError"
    ELSE IF PyLen(embedding) = 0 THEN "remove"
    ELSE "keep"

\* opensearch_manager.py 99-103: the document that is sent to the store.
cv_body(document) ==
    IF document.cv_embedding # ABSENT /\ cv_embedding_check(document.cv_embedding) = "remove"
    THEN [document EXCEPT !.cv_embedding = ABSENT]
    ELSE document

\* opensearch_manager.py 103: the dicts when the call is over.  The dict
\* comprehension builds a new dict without the embedding and binds the
\* local name 'document' to it; the caller's dict is not written to.
heap_after_index_cv(document) ==
    [caller |-> document, filtered |-> cv_body(document)]

\* The caller's dict after the call.
cv_caller_document(document) == heap_after_index_cv(document).caller

index_cv_document(user_id, document) ==
    \/ \* a required field is missing: ValueError, re-raised
       /\ missing_required_field(document)
       /\ cvIndex' = cvIndex
       /\ cvCall' = [user_id |-> user_id, document |-> document,
                     caller_document |-> cv_caller_document(document),
                     outcome |-> "raised",
                     exc |-> [kind |-> "ValueError", mentions |-> {}],
                     writes |-> <<>>]
    \/ \* len() of the embedding raises: TypeError, re-raised
       /\ ~missing_required_field(document)
       /\ document.cv_embedding # ABSENT
       /\ cv_embedding_check(document.cv_embedding) = "TypeError"
       /\ cvIndex' = cvIndex
       /\ cvCall' = [user_id |-> user_id, document |-> document,
                     caller_document |-> cv_caller_document(document),
                     outcome |-> "raised",
                     exc |-> [kind |-> "TypeError", mentions |-> {}],
                     writes |-> <<>>]
    \/ \* the write is accepted
       /\ ~missing_required_field(document)
       /\ document.cv_embedding = ABSENT
            \/ cv_embedding_check(document.cv_embedding) # "TypeError"
       /\ cvIndex' = Upsert(cvIndex, user_id, cv_body(document))
       /\ cvCall' = [user_id |-> user_id, document |-> document,
                     caller_document |-> cv_caller_document(document),
                     outcome |-> "returned", exc |-> NoError,
                     writes |-> <<cv_body(document)>>]
    \/ \* the write raises, re-raised
       \E e \in StoreErrors :
          /\ ~missing_required_field(document)
          /\ document.cv_embedding = ABSENT
               \/ cv_embedding_check(document.cv_embedding) # "TypeError"
          /\ cvIndex' = cvIndex
          /\ cvCall' = [user_id |-> user_id, document |-> document,
                     caller_document |-> cv_caller_document(document),
                        outcome |-> "raised", exc |-> e,
                        writes |-> <<cv_body(document)>>]

IndexCv ==
    /\ \E user_id \in UserIds : \E document \in CvDocuments(user_id) :
          index_cv_document(user_id, document)
    /\ UNCHANGED <<jobIndex, jobCall, srch, rec, svc, emb, hc, qry, ext, cw, scr, lam, cvp, bat, lvl>>

----------------------------------------------------------------------------
(* search_similar_jobs *)

Min(a, b) == IF a < b THEN a ELSE b

InjectiveSeqs(S, n) ==
    {s \in [1..n -> S] : \A i, j \in 1..n : i # j => s[i] # s[j]}

\* A query without the _source clause.
ExcludeEmbedding_nothing(doc) == doc

\* "_source": {"exclude": ["job_embedding"]}
ExcludeEmbedding(doc) == [doc EXCEPT !.job_embedding = ABSENT]

\* {"exists": {"field": "job_embedding"}}: the field holds a value.
HasEmbeddingField(doc) ==
    doc.job_embedding \notin {ABSENT, PyNone, PyList(<<>>)}

\* A query without the exists clause.
JobsWithEmbedding_no_exists_clause == DOMAIN jobIndex

JobsWithEmbedding == {id \in DOMAIN jobIndex : HasEmbeddingField(jobIndex[id])}

\* client.search(index=job_index, body) when the store answers: `size`
\* of the matching documents (all of them when there are fewer).  None of
\* the three queries asks for a sort, so which documents are returned, and
\* in which order, is the store's choice.
StoreSearch(matching, size) ==
    LET n == Min(size, Cardinality(matching)) IN
    { [i \in 1..n |-> [_id |-> s[i], _source |-> ExcludeEmbedding(jobIndex[s[i]])]] :
        s \in InjectiveSeqs(matching, n) }

\* cluster_info['version']['number'], by its first component.
Versions == {1, 2, 3}

\* opensearch_manager.py 251: version.startswith('2.') or version.startswith('3.')
supports_knn(version) == version = 2 \/ version = 3

SearchResult(cv_embedding, size, check, first_search, query, outcome, hits) ==
    [cv_embedding |-> cv_embedding, size |-> size, check |-> check,
     first_search |-> first_search, query |-> query, outcome |-> outcome,
     hits |-> hits]

NoSearch == SearchResult(ABSENT, 0, "none", "none", "none", "none", <<>>)

\* opensearch_manager.py 294-307: the except branch.  The match_all search
\* answers, or raises and the first exception is raised again.
fallback_search(cv_embedding, size, check, first_search) ==
    { SearchResult(cv_embedding, size, check, first_search, "match_all", "returned", h) :
        h \in StoreSearch(DOMAIN jobIndex, size) }
    \cup
    { SearchResult(cv_embedding, size, check, first_search, "match_all", "raised", <<>>) }

\* opensearch_manager.py 241-307: every result the call can have.  check is
\* how far the try block went: "bad_vector" (244-245 raised, or len() did),
\* "info_failed" (248 raised), "knn" (253-275) or "old_version" (278-290);
\* first_search is the fate of the search of line 292.  A k-NN query with a
\* vector that is no list of numbers is refused by the store.
search_similar_jobs(cv_embedding, size) ==
    IF ~Truthy(cv_embedding) \/ ~HasLen(cv_embedding)
    THEN fallback_search(cv_embedding, size, "bad_vector", "none")
    ELSE
        fallback_search(cv_embedding, size, "info_failed", "none")
        \cup
        UNION { IF supports_knn(version)
                THEN { SearchResult(cv_embedding, size, "knn", "ok", "knn", "returned", h) :
                         h \in IF ValidVector(cv_embedding)
                               THEN StoreSearch(JobsWithEmbedding, size)
                               ELSE {} }
                     \cup fallback_search(cv_embedding, size, "knn", "raised")
                ELSE { SearchResult(cv_embedding, size, "old_version", "ok", "exists", "returned", h) :
                         h \in StoreSearch(JobsWithEmbedding, size) }
                     \cup fallback_search(cv_embedding, size, "old_version", "raised")
              : version \in Versions }

\* The vectors a direct caller passes.
QueryVectors == ValidVectors \cup {PyNone, PyList(<<>>), PyInt(5), PyList(<<"null">>)}

SearchSimilarJobs ==
    /\ \E cv_embedding \in QueryVectors, size \in 1..MaxSize :
          \E r \in search_similar_jobs(cv_embedding, size) : srch' = r
    /\ UNCHANGED <<jobIndex, cvIndex, jobCall, cvCall, rec, svc, emb, hc, qry, ext, cw, scr, lam, cvp, bat, lvl>>

----------------------------------------------------------------------------
(* get_cv_by_user_id and handle_recommendation_request *)

\* "_source": {"exclude": ["cv_text"]}
ExcludeText(doc) == [doc EXCEPT !.cv_text = "absent"]

NoCv == [user_id |-> "absent", cv_text |-> "absent", cv_embedding |-> ABSENT]

\* {"term": {"user_id": user_id}}
CvMatching(user_id) == {id \in DOMAIN cvIndex : cvIndex[id].user_id = user_id}

\* A lookup without the term clause: the first document of the index.
get_cv_by_user_id_no_term_clause(user_id) ==
    { [lookup |-> "store_error", found |-> FALSE, raised |-> FALSE, cv |-> NoCv] }
    \cup
    (IF DOMAIN cvIndex = {}
     THEN { [lookup |-> "index_missing", found |-> FALSE, raised |-> FALSE, cv |-> NoCv] }
     ELSE { [lookup |-> "found", found |-> TRUE, raised |-> FALSE,
              cv |-> ExcludeText(cvIndex[id])] :
              id \in DOMAIN cvIndex })

\* A lookup whose except clause raises the exception again.
get_cv_by_user_id_reraises(user_id) ==
    { [lookup |-> "store_error", found |-> FALSE, raised |-> TRUE, cv |-> NoCv] }
    \cup
    (IF DOMAIN cvIndex = {}
     THEN { [lookup |-> "index_missing", found |-> FALSE, raised |-> FALSE, cv |-> NoCv] }
     ELSE {})
    \cup
    (IF CvMatching(user_id) = {}
     THEN { [lookup |-> "no_match", found |-> FALSE, raised |-> FALSE, cv |-> NoCv] }
     ELSE { [lookup |-> "found", found |-> TRUE, raised |-> FALSE,
              cv |-> ExcludeText(cvIndex[id])] :
              id \in CvMatching(user_id) })

\* opensearch_manager.py 119-153: every result the call can have, as
\* [lookup, found, raised, cv]; raised tells whether the call raised.  An index that holds documents exists; an empty one
\* may not have been created yet.  Every exception is turned into None.
get_cv_by_user_id(user_id) ==
    { [lookup |-> "store_error", found |-> FALSE, raised |-> FALSE, cv |-> NoCv] }
    \cup
    (IF DOMAIN cvIndex = {}
     THEN { [lookup |-> "index_missing", found |-> FALSE, raised |-> FALSE, cv |-> NoCv] }
     ELSE {})
    \cup
    (IF CvMatching(user_id) = {}
     THEN { [lookup |-> "no_match", found |-> FALSE, raised |-> FALSE, cv |-> NoCv] }
     ELSE { [lookup |-> "found", found |-> TRUE, raised |-> FALSE,
              cv |-> ExcludeText(cvIndex[id])] :
              id \in CvMatching(user_id) })

\* Lambda_function-1.py 342: size=10
RecommendationSize == 10

\* A hit's '_score' as handle_recommendation_request reads it: the key is
\* missing, its value is null, or it is a number, kept in hundredths (n = 95
\* is the score 0.95).  search_similar_jobs hands the store's response on
\* untouched, so the scores are drawn where they are read.
ScoreMissing == [ty |-> "missing", n |-> 0]
ScoreNull == [ty |-> "NoneType", n |-> 0]
PyFloat(n) == [ty |-> "float", n |-> n]

\* The scores of the hits of a request: missing, null, and 0.95.
Scores == {ScoreMissing, ScoreNull, PyFloat(95)}

\* Numeric scores, in hundredths: negative, zero, small, at the clamp, above.
ScoreNumbers == {0 - 150, 0 - 1, 0, 9, 10, 95, 999, 1000, 1009, 100000}

\* Lambda_function-1.py 355: hit.get('_score', 0)
similarity_score(score) == IF score = ScoreMissing THEN PyFloat(0) ELSE score

\* int(x) of Python rounds towards zero; x is n / 10.
int_of_tenths(n) == IF n >= 0 THEN n \div 10 ELSE 0 - ((0 - n) \div 10)

PyMax(a, b) == IF a > b THEN a ELSE b

\* Lambda_function-1.py 358: min(100, max(0, int(similarity_score * 10)))
match_percentage(score) == Min(100, PyMax(0, int_of_tenths(score.n)))

\* Lambda_function-1.py 353-375: one recommendation per hit, in hit order.
\* Recommendations listed from the last hit to the first.
Recommendations_reversed(hits, scores) ==
    [i \in 1..Len(hits) |->
        [job_id |-> hits[Len(hits) + 1 - i]._id,
         match_percentage |->
            match_percentage(similarity_score(scores[Len(hits) + 1 - i])),
         similarity_score |-> similarity_score(scores[Len(hits) + 1 - i]),
         scraped_date |-> hits[Len(hits) + 1 - i]._source.scraped_date]]

\* Lambda_function-1.py 352-375: one recommendation per hit, in the order of
\* the hits.
Recommendations(hits, scores) ==
    [i \in 1..Len(hits) |->
        [job_id |-> hits[i]._id,
         match_percentage |-> match_percentage(similarity_score(scores[i])),
         similarity_score |-> similarity_score(scores[i]),
         scraped_date |-> hits[i]._source.scraped_date]]

Response(user_id, lookup, search, status, error, message, recommendations) ==
    [user_id |-> user_id, lookup |-> lookup, search |-> search,
     status |-> status, error |-> error, message |-> message,
     recommendations |-> recommendations]

NoRec == Response("none", "none", NoSearch, 0, "none", "none", <<>>)

\* Lambda_function-1.py 312-400.  user_id "absent" is a body without a
\* user_id (or with an empty one).
handle_recommendation_request(user_id) ==
    \/ \* 317-318
       /\ user_id = "absent"
       /\ rec' = Response(user_id, "none", NoSearch, 400, "user_id is required", "none", <<>>)
    \/ \* 326-332
       /\ user_id # "absent"
       /\ \E r \in get_cv_by_user_id(user_id) :
             /\ ~r.raised
             /\ ~r.found
             /\ rec' = Response(user_id, r.lookup, NoSearch, 404,
                                "CV not found for this user. Please upload your CV first.",
                                "none", <<>>)
    \/ \* 326, 398-400: an exception of the lookup ends in the except clause
       /\ user_id # "absent"
       /\ \E r \in get_cv_by_user_id(user_id) :
             /\ r.raised
             /\ rec' = Response(user_id, r.lookup, NoSearch, 500,
                                "Failed to get recommendations", "none", <<>>)
    \/ \* 334-339
       /\ user_id # "absent"
       /\ \E r \in get_cv_by_user_id(user_id) :
             /\ r.found
             /\ ~Truthy(r.cv.cv_embedding)
             /\ rec' = Response(user_id, r.lookup, NoSearch, 400,
                                "CV embedding not available. Please re-upload your CV.",
                                "none", <<>>)
    \/ \* 342, 398-400: the search raises
       /\ user_id # "absent"
       /\ \E r \in get_cv_by_user_id(user_id) :
             /\ r.found
             /\ Truthy(r.cv.cv_embedding)
             /\ \E s \in search_similar_jobs(r.cv.cv_embedding, RecommendationSize) :
                   /\ s.outcome = "raised"
                   /\ rec' = Response(user_id, r.lookup, s, 500,
                                      "Failed to get recommendations", "none", <<>>)
    \/ \* 344-349: no hits
       /\ user_id # "absent"
       /\ \E r \in get_cv_by_user_id(user_id) :
             /\ r.found
             /\ Truthy(r.cv.cv_embedding)
             /\ \E s \in search_similar_jobs(r.cv.cv_embedding, RecommendationSize) :
                   /\ s.outcome = "returned"
                   /\ s.hits = <<>>
                   /\ rec' = Response(user_id, r.lookup, s, 404, "none",
                                      "No matching jobs found at the moment.", <<>>)
    \/ \* 351-358, 398-400: a hit whose _score is null; None * 10 raises
       \* TypeError, caught by the handler's except clause
       /\ user_id # "absent"
       /\ \E r \in get_cv_by_user_id(user_id) :
             /\ r.found
             /\ Truthy(r.cv.cv_embedding)
             /\ \E s \in search_similar_jobs(r.cv.cv_embedding, RecommendationSize) :
                   /\ s.outcome = "returned"
                   /\ s.hits # <<>>
                   /\ ScoreNull \in Scores
                   /\ rec' = Response(user_id, r.lookup, s, 500,
                                      "Failed to get recommendations: TypeError",
                                      "none", <<>>)
    \/ \* 351-396
       /\ user_id # "absent"
       /\ \E r \in get_cv_by_user_id(user_id) :
             /\ r.found
             /\ Truthy(r.cv.cv_embedding)
             /\ \E s \in search_similar_jobs(r.cv.cv_embedding, RecommendationSize) :
                   /\ s.outcome = "returned"
                   /\ s.hits # <<>>
                   /\ \E scores \in [1..Len(s.hits) -> Scores \ {ScoreNull}] :
                         rec' = Response(user_id, r.lookup, s, 200, "none", "none",
                                            Recommendations(s.hits, scores))

Recommend ==
    /\ \E user_id \in UserIds \cup {"absent"} : handle_recommendation_request(user_id)
    /\ UNCHANGED <<jobIndex, cvIndex, jobCall, cvCall, srch, svc, emb, hc, qry, ext, cw, scr, lam, cvp, bat, lvl>>

----------------------------------------------------------------------------
(* handle_opensearch_query *)

\* Lambda_function-1.py 133: the index the caller names, job-index by default.
Indexes == {"job-index", "cv-index"}

\* The '_source' of a stored document of either index, with the keys of both.
SourceOf(index_name, id) ==
    IF index_name = "job-index"
    THEN [job_embedding |-> jobIndex[id].job_embedding, cv_embedding |-> ABSENT,
          embedding_status |-> jobIndex[id].embedding_status,
          scraped_date |-> jobIndex[id].scraped_date,
          user_id |-> "absent", cv_text |-> "absent"]
    ELSE [job_embedding |-> ABSENT, cv_embedding |-> cvIndex[id].cv_embedding,
          embedding_status |-> "absent", scraped_date |-> 0,
          user_id |-> cvIndex[id].user_id, cv_text |-> cvIndex[id].cv_text]

StoredIds(index_name) ==
    IF index_name = "job-index" THEN DOMAIN jobIndex ELSE DOMAIN cvIndex

\* Lambda_function-1.py 134: size = event.get('size', 10)
DefaultQuerySize == 10

\* The sizes a caller asks for: one hit, or the default.
QuerySizes == {1, DefaultQuerySize}

\* The queries a caller sends: every document, or the documents that hold
\* an embedding.
Queries == {"match_all", "exists_embedding"}

QueryMatching(index_name, query) ==
    IF query = "match_all" THEN StoredIds(index_name)
    ELSE {id \in StoredIds(index_name) :
            \/ SourceOf(index_name, id).job_embedding \notin {ABSENT, PyNone, PyList(<<>>)}
            \/ SourceOf(index_name, id).cv_embedding \notin {ABSENT, PyNone, PyList(<<>>)}}

\* A source filter that names job_embedding only.
SourceExcludes_job_embedding_only(source) ==
    [source EXCEPT !.job_embedding = ABSENT]

\* Lambda_function-1.py 167-169: "excludes": ["job_embedding", "cv_embedding"]
SourceExcludes(source) ==
    [source EXCEPT !.job_embedding = ABSENT, !.cv_embedding = ABSENT]

\* Lambda_function-1.py 184-190: one result per hit, with the hit's _source.
QueryResults(index_name, ids) ==
    [i \in 1..Len(ids) |-> [id |-> ids[i],
                            source |-> SourceExcludes(SourceOf(index_name, ids[i]))]]

NoQuery ==
    [index |-> "none", query |-> "none", size |-> 0, statusCode |-> 0,
     success |-> FALSE, results |-> <<>>]

\* Lambda_function-1.py 129-229
handle_opensearch_query(index_name, query, size) ==
    \/ \* 173-215: the search answers
       \E ids \in InjectiveSeqs(QueryMatching(index_name, query),
                                Min(size, Cardinality(QueryMatching(index_name, query)))) :
          qry' = [index |-> index_name, query |-> query, size |-> size,
                  statusCode |-> 200, success |-> TRUE,
                  results |-> QueryResults(index_name, ids)]
    \/ \* 217-229: the search raises
       qry' = [index |-> index_name, query |-> query, size |-> size,
               statusCode |-> 500, success |-> FALSE, results |-> <<>>]

OpenSearchQuery ==
    /\ \E index_name \in Indexes, query \in Queries, size \in QuerySizes :
          handle_opensearch_query(index_name, query, size)
    /\ UNCHANGED <<jobIndex, cvIndex, jobCall, cvCall, srch, rec, svc, emb, hc, ext, cw, scr, lam, cvp, bat, lvl>>

----------------------------------------------------------------------------
(* test_connection and handle_status_request *)

\* opensearch_manager.py 336-362: the store calls of test_connection, in
\* the order of the code.
CallOrder == <<"health", "cv_exists", "job_exists", "cv_count", "job_count",
               "with_embeddings">>

\* What each call can give.  An index that holds documents exists.
CallOutcomes ==
    { o \in [1..6 -> {"ok", "true", "false", "raised"}] :
        /\ o[1] \in {"ok", "raised"}
        /\ o[2] \in {"true", "raised"} \cup (IF DOMAIN cvIndex = {} THEN {"false"} ELSE {})
        /\ o[3] \in {"true", "raised"} \cup (IF DOMAIN jobIndex = {} THEN {"false"} ELSE {})
        /\ \A i \in 4..6 : o[i] \in {"ok", "raised"} }

\* Every call sits directly in the outer try block.
fatal_calls_all ==
    {"health", "cv_exists", "job_exists", "cv_count", "job_count", "with_embeddings"}

\* opensearch_manager.py 336-340: the calls made outside the two inner try
\* blocks (347-351 and 353-367); an exception of one of them reaches the
\* outer except clause.
fatal_calls == {"health", "cv_exists", "job_exists"}

\* Whether the i-th call is made: no earlier call ended the try block, a
\* count is asked only of an index that exists (346, 353), and the second
\* job count follows the first in the same try block (355-363).
RECURSIVE Made(_, _)
Made(i, o) ==
    /\ \A k \in 1..(i - 1) :
          ~(Made(k, o) /\ CallOrder[k] \in fatal_calls /\ o[k] = "raised")
    /\ CASE i = 4 -> o[2] = "true"
         [] i = 5 -> o[3] = "true"
         [] i = 6 -> o[3] = "true" /\ o[5] = "ok"
         [] OTHER -> TRUE

\* The calls as they happened.
CallTrace(o) == [i \in 1..6 |-> IF Made(i, o) THEN o[i] ELSE "skipped"]

\* The call whose exception reached the outer except clause.
FatalCalls(o) ==
    {i \in 1..6 : Made(i, o) /\ CallOrder[i] \in fatal_calls /\ o[i] = "raised"}

\* opensearch_manager.py 332-394: the status record test_connection returns
\* for the call outcomes o.  error is the call whose exception str(e) was
\* put in the record.
test_connection(o) ==
    LET t == CallTrace(o) IN
    IF FatalCalls(o) # {}
    THEN [calls |-> t, status |-> "failed",
          error |-> CallOrder[CHOOSE i \in FatalCalls(o) : TRUE],
          cv_document_count |-> 0, job_document_count |-> 0,
          jobs_with_embeddings |-> 0, jobs_without_embeddings |-> 0]
    ELSE [calls |-> t, status |-> "connected", error |-> "none",
          cv_document_count |->
              IF t[4] = "ok" THEN Cardinality(DOMAIN cvIndex) ELSE 0,
          job_document_count |->
              IF t[5] = "ok" THEN Cardinality(DOMAIN jobIndex) ELSE 0,
          jobs_with_embeddings |->
              IF t[6] = "ok" THEN Cardinality(JobsWithEmbedding) ELSE 0,
          jobs_without_embeddings |->
              IF t[6] = "ok"
              THEN Cardinality(DOMAIN jobIndex) - Cardinality(JobsWithEmbedding)
              ELSE 0]

NoStatusRecord ==
    [calls |-> [i \in 1..6 |-> "skipped"], status |-> "none", error |-> "none",
     cv_document_count |-> 0, job_document_count |-> 0,
     jobs_with_embeddings |-> 0, jobs_without_embeddings |-> 0]

NoStatus ==
    [op |-> "none", constructed |-> FALSE, opensearch_status |-> NoStatusRecord,
     statusCode |-> 0, system_status |-> "none", error |-> "none"]

\* Lambda_function-1.py 402-417
handle_status_request ==
    \/ \* 405, 415-417: OpenSearchManager() raises (no credentials)
       hc' = [op |-> "status", constructed |-> FALSE,
              opensearch_status |-> NoStatusRecord,
              statusCode |-> 500, system_status |-> "none", error |-> "AttributeError"]
    \/ \* 406-413
       \E o \in CallOutcomes :
          hc' = [op |-> "status", constructed |-> TRUE,
                 opensearch_status |-> test_connection(o),
                 statusCode |-> 200, system_status |-> "operational", error |-> "none"]

StatusRequest ==
    /\ handle_status_request
    /\ UNCHANGED <<jobIndex, cvIndex, jobCall, cvCall, srch, rec, svc, emb, qry, ext, cw, scr, lam, cvp, bat, lvl>>

----------------------------------------------------------------------------
(* _extract_job_from_card and _generate_job_id *)

\* A string is a sequence of characters.  The characters of the model and
\* their code points.
Code(ch) ==
    CASE ch = "a" -> 97 [] ch = "A" -> 65 [] ch = "b" -> 98
      [] ch = "c" -> 99 [] ch = "C" -> 67
      [] ch = "u" -> 117 [] ch = "U" -> 85
      [] ch = "d" -> 100 [] ch = "_" -> 95

\* A conversion that keeps the case.
lower_nothing(ch) == ch

\* str.lower(), character by character.
lower(ch) ==
    CASE ch = "A" -> "a"
      [] ch = "C" -> "c"
      [] ch = "U" -> "u"
      [] ch = "D" -> "d"
      [] ch = "E" -> "e"
      [] ch = "I" -> "i"
      [] ch = "L" -> "l"
      [] ch = "S" -> "s"
      [] OTHER -> ch

LowerString(str) == [i \in 1..Len(str) |-> lower(str[i])]

\* job_scraper.py 360: hexdigest()[:16] keeps 64 bits of the digest; the
\* model keeps 16.
DigestSpace == 65536

\* hashlib.md5(...).hexdigest()[:16]: a fixed function of the characters of
\* the string, in their order, onto the digest space; two strings can
\* collide.
RECURSIVE Digest(_)
Digest(str) ==
    IF str = <<>> THEN 7
    ELSE (Digest(SubSeq(str, 1, Len(str) - 1)) * 31 + Code(str[Len(str)])) % DigestSpace

\* job_scraper.py 357-360
_generate_job_id(title, company, unique_str) ==
    Digest(LowerString(title \o <<"_">> \o company \o <<"_">> \o unique_str))

\* What a job card holds.  A card without a title gives no job (295-296).
Titles == {<<>>} \cup {t \in SeqsUpTo({"a", "A", "b"}, 2) : t # <<>>}
Companies == {<<"c">>, <<"C">>}
JobUrls == {<<>>, <<"u">>, <<"U">>}
Descriptions == {<<>>, <<"d">>}

NoExtraction ==
    [job_id |-> 0 - 1, title |-> <<>>, company |-> <<>>, description |-> <<>>,
     job_url |-> <<>>]

NoExtractions == [prev |-> NoExtraction, cur |-> NoExtraction]

\* job_scraper.py 295-351: the job of one card; job_url or title is the
\* third part of the id.
_extract_job_from_card(title, company, job_url, description) ==
    IF title = <<>> THEN NoExtraction
    ELSE [job_id |-> _generate_job_id(title, company,
                                      IF job_url # <<>> THEN job_url ELSE title),
          title |-> title, company |-> company, description |-> description,
          job_url |-> job_url]

ExtractJob ==
    /\ \E title \in Titles, company \in Companies, job_url \in JobUrls,
          description \in Descriptions :
          ext' = [prev |-> ext.cur,
                  cur |-> _extract_job_from_card(title, company, job_url, description)]
    /\ UNCHANGED <<jobIndex, cvIndex, jobCall, cvCall, srch, rec, svc, emb, hc, qry, cw, scr, lam, cvp, bat, lvl>>

----------------------------------------------------------------------------
(* EmbeddingService *)

\* embedding_service.py 15-18
model_ids == <<"amazon.titan-embed-text-v2:0", "amazon.titan-embed-text-v1">>

\* embedding_service.py 43: max_retries: int = 3
max_retries == 3

\* embedding_service.py 115: len(text.strip()) < 5
MinTextLength == 5

\* embedding_service.py 122: len(text) > 8000
MaxTextLength == 8000

\* embedding_service.py 123: + "..."
MarkerLength == 3

\* The length of the text of a CV file (after clean_text).
CvFileLengths == {8000, 8001, 9000}

\* cv_processor.py 104-106: the CV reader cuts the text to 8000 characters
\* and appends "...".
read_cv_text_length(n) ==
    IF n > MaxTextLength THEN MaxTextLength + MarkerLength ELSE n

\* A text, by the length of text.strip() and the number of white-space
\* characters around it: job texts, and CV texts as the CV reader returns
\* them.
Texts ==
    [stripped : {0, 4, 5, 6, 8000, 8001, 9000}
                   \cup {read_cv_text_length(n) : n \in CvFileLengths},
     padding : {0, 1}]

\* embedding_service.py 104: an invoke_model call that raises (time-out,
\* throttling, a body that is no JSON).
ProviderException == [ty |-> "exception", n |-> 0, items |-> <<>>]

\* What one invoke_model call can give: an exception, or a body whose
\* 'embedding' is any value (None when the key is missing).
ProviderOutcomes ==
    {ProviderException} \cup EmbeddingValues \cup {PyList(<<"num", "num">>)}

\* embedding_service.py 122: whether the stripped text is cut.
truncated(text) == text.stripped > MaxTextLength

\* embedding_service.py 119-123: how many of the leading characters of the
\* stripped text are handed to _call_bedrock.
kept_length(text) ==
    IF truncated(text) THEN MaxTextLength ELSE text.stripped

\* A text that is stripped but never cut.
prepared_length_uncut(text) == text.stripped

\* embedding_service.py 119-123: the length of the text handed to
\* _call_bedrock: stripped, and cut to 8000 characters plus "...".
prepared_length(text) ==
    IF truncated(text) THEN kept_length(text) + MarkerLength
    ELSE kept_length(text)

\* A check that accepts every non-empty list.
raw_embedding_ok_any_list(embedding) ==
    /\ embedding.ty = "list"
    /\ Len(embedding.items) # 0

\* embedding_service.py 54-98: the call returned, and the five checks of
\* the raw result pass.
raw_embedding_ok(embedding) ==
    /\ embedding # ProviderException
    /\ embedding.ty # "NoneType"
    /\ embedding.ty = "list"
    /\ Len(embedding.items) # 0
    /\ {i \in 1..Len(embedding.items) : embedding.items[i] = "null"} = {}
    /\ {i \in 1..Len(embedding.items) : ~IsNumber(embedding.items[i])} = {}

\* A wait that does not grow.
backoff_constant(attempt) == 1

\* embedding_service.py 107: time.sleep(2 ** attempt)
backoff(attempt) == 2 ^ attempt

\* embedding_service.py 20-21
NoService == [current_model |-> "None", embedding_dims |-> 0, constructed |-> FALSE]

EmbeddingCall(op, pc, model_idx, model, attempt, text, calls, sleeps, outcome, embedding) ==
    [op |-> op, pc |-> pc, model_idx |-> model_idx, model |-> model,
     attempt |-> attempt, text |-> text, sent |-> prepared_length(text),
     kept |-> kept_length(text), marker |-> truncated(text),
     calls |-> calls, sleeps |-> sleeps,
     outcome |-> outcome, embedding |-> embedding]

NoText == [stripped |-> 0, padding |-> 0]

\* embedding_service.py 29: the text "test" of the model probe.
TestText == [stripped |-> 4, padding |-> 0]

\* A service that takes the model and the length of every vector it returns.
service_after_tracks_last(op, model, embedding) ==
    [current_model |-> model, embedding_dims |-> Len(embedding.items),
     constructed |-> TRUE]

\* A construction that always keeps the preferred model id.
service_after_preferred_model(op, model, embedding) ==
    IF op = "init"
    THEN [current_model |-> model_ids[1], embedding_dims |-> Len(embedding.items),
          constructed |-> TRUE]
    ELSE svc

\* embedding_service.py 30-33, 148-150: the instance after a validated
\* vector: _initialize_model keeps the model and the length of its vector,
\* generate_embedding only logs a length that differs.
service_after(op, model, embedding) ==
    IF op = "init"
    THEN [current_model |-> model, embedding_dims |-> Len(embedding.items),
          constructed |-> TRUE]
    ELSE svc

NoEmbeddingCall ==
    EmbeddingCall("none", "idle", 0, "None", 0, NoText, <<>>, <<>>, "none", ABSENT)

\* embedding_service.py 10-26: the constructor enters _initialize_model with
\* the first model id.
Construct ==
    /\ ~svc.constructed
    /\ emb.pc = "idle"
    /\ emb.op = "none"
    /\ emb' = EmbeddingCall("init", "calling", 1, model_ids[1], 0, TestText,
                            <<>>, <<>>, "none", ABSENT)
    /\ UNCHANGED <<jobIndex, cvIndex, jobCall, cvCall, srch, rec, svc, hc, qry, ext, cw, scr, lam, cvp, bat, lvl>>

\* embedding_service.py 112-130: generate_embedding up to the call of
\* _call_bedrock with the current model.
StartGenerate ==
    /\ svc.constructed
    /\ emb.pc # "calling"
    /\ \E text \in Texts :
          \/ \* 115-116, 164-167: too short, ValueError
             /\ text.stripped < MinTextLength
             /\ emb' = EmbeddingCall("generate", "done", 0, svc.current_model, 0, text,
                                     <<>>, <<>>, "raised", ABSENT)
          \/ \* 119-130
             /\ text.stripped >= MinTextLength
             /\ emb' = EmbeddingCall("generate", "calling", 0, svc.current_model, 0, text,
                                     <<>>, <<>>, "none", ABSENT)
    /\ UNCHANGED <<jobIndex, cvIndex, jobCall, cvCall, srch, rec, svc, hc, qry, ext, cw, scr, lam, cvp, bat, lvl>>

\* embedding_service.py 45-102: one attempt of _call_bedrock that returns a
\* validated embedding.  _initialize_model (30-34) keeps the model and the
\* length; generate_embedding (133-162) returns the vector.
AttemptSucceeds ==
    /\ emb.pc = "calling"
    /\ \E embedding \in ProviderOutcomes :
          /\ raw_embedding_ok(embedding)
          /\ emb' = [emb EXCEPT !.pc = "done",
                                !.calls = Append(emb.calls, emb.model),
                                !.outcome = "returned",
                                !.embedding = embedding]
          /\ svc' = service_after(emb.op, emb.model, embedding)
    /\ UNCHANGED <<jobIndex, cvIndex, jobCall, cvCall, srch, rec, hc, qry, ext, cw, scr, lam, cvp, bat, lvl>>

\* embedding_service.py 104: the outcomes that end an attempt in the
\* except branch: the call raised, or a check of its result raised.
AttemptFailures == {e \in ProviderOutcomes : ~raw_embedding_ok(e)}

\* embedding_service.py 104-107: a failed attempt that is not the last one:
\* sleep, then the next attempt.
AttemptFailsAndRetries ==
    /\ emb.pc = "calling"
    /\ emb.attempt < max_retries - 1
    /\ \E failure \in AttemptFailures :
          emb' = [emb EXCEPT !.attempt = emb.attempt + 1,
                             !.calls = Append(emb.calls, emb.model),
                             !.sleeps = Append(emb.sleeps, backoff(emb.attempt)),
                             !.embedding = failure]
    /\ UNCHANGED <<jobIndex, cvIndex, jobCall, cvCall, srch, rec, svc, hc, qry, ext, cw, scr, lam, cvp, bat, lvl>>

\* embedding_service.py 108-110: the last attempt fails and _call_bedrock
\* raises.  generate_embedding raises in turn (164-167); _initialize_model
\* goes on with the next model id (35-37) or, after the last one, raises
\* (40-41) and no instance is constructed.
AttemptFailsLast ==
    /\ emb.pc = "calling"
    /\ emb.attempt = max_retries - 1
    /\ \E failure \in AttemptFailures :
          \/ /\ emb.op = "generate"
             /\ emb' = [emb EXCEPT !.pc = "done",
                                   !.calls = Append(emb.calls, emb.model),
                                   !.outcome = "raised",
                                   !.embedding = failure]
          \/ /\ emb.op = "init"
             /\ emb.model_idx < Len(model_ids)
             /\ emb' = [emb EXCEPT !.model_idx = emb.model_idx + 1,
                                   !.model = model_ids[emb.model_idx + 1],
                                   !.attempt = 0,
                                   !.calls = Append(emb.calls, emb.model),
                                   !.embedding = failure]
          \/ /\ emb.op = "init"
             /\ emb.model_idx = Len(model_ids)
             /\ emb' = [emb EXCEPT !.pc = "done",
                                   !.calls = Append(emb.calls, emb.model),
                                   !.outcome = "raised",
                                   !.embedding = failure]
    /\ UNCHANGED <<jobIndex, cvIndex, jobCall, cvCall, srch, rec, svc, hc, qry, ext, cw, scr, lam, cvp, bat, lvl>>

NextEmbedding ==
    \/ Construct
    \/ StartGenerate
    \/ AttemptSucceeds
    \/ AttemptFailsAndRetries
    \/ AttemptFailsLast

----------------------------------------------------------------------------
(* lambda_handler and the handlers it dispatches to *)

\* What a handler call gives its caller: a response (the status code and
\* the keys of the serialized JSON body), or an exception.
Reply(statusCode, body) == [raised |-> FALSE, statusCode |-> statusCode, body |-> body]

Raised == [raised |-> TRUE, statusCode |-> 0, body |-> {}]

\* Lambda_function-1.py 622-633
create_api_response(status_code, body) == Reply(status_code, body)

\* An except clause that returns 'reply' for every exception of the body.
except_Exception(results, reply) ==
    {IF r.raised THEN reply ELSE r : r \in results}

\* The request body of an API Gateway event: absent, a string that is not
\* JSON, JSON that is not an object, or an object with the keys the
\* handlers read.
\* limit is the number under the body's 'limit' key, 0 when there is none.
NoBody == [form |-> "absent", user_id |-> "absent", test_type |-> "absent", limit |-> 0]

\* The 'limit' a caller may send along with the user_id.
Limits == {1, 10}

Body(form) == [NoBody EXCEPT !.form = form]

\* The bodies sent with a request: those that tell the branches of its
\* handler apart.
HttpBodies(httpMethod, path) ==
    CASE httpMethod = "POST" /\ path = "/recommendations" ->
            {Body(f) : f \in {"absent", "invalid_json", "not_an_object"}}
            \cup {[Body("object") EXCEPT !.user_id = u] : u \in UserIds \cup {"absent"}}
            \cup {[Body("object") EXCEPT !.user_id = "u1", !.limit = n] : n \in Limits}
      [] path = "/test" ->
            {Body("not_an_object"), Body("object")}
            \cup {[Body("object") EXCEPT !.test_type = t] :
                    t \in {"connection", "embedding", "other"}}
      [] path \in {"/search", "/aggregations"} ->
            {Body("object"), Body("not_an_object")}
      [] OTHER -> {NoBody, Body("invalid_json")}

HttpRequests ==
    {<<"POST", "/recommendations">>, <<"GET", "/recommendations">>,
     <<"POST", "/search">>, <<"POST", "/aggregations">>, <<"GET", "/status">>,
     <<"POST", "/test">>, <<"POST", "/jobs">>}

Tasks ==
    {"test_small_scrape", "test_connection", "process_pending_cvs",
     "health_check", "other"}

\* The records of an S3 event: well-formed records carry s3.bucket.name and
\* s3.object.key.
RecordLists == {<<"well_formed">>, <<"no_s3_key">>, <<"well_formed", "well_formed">>}

\* The events lambda_handler tells apart (88-123), and one that is not a
\* mapping at all.
Events ==
    UNION {{[shape |-> "http", httpMethod |-> r[1], path |-> r[2], body |-> b,
             task |-> "absent", Records |-> <<>>] : b \in HttpBodies(r[1], r[2])} :
              r \in HttpRequests}
    \cup {[shape |-> s, httpMethod |-> "absent", path |-> "absent", body |-> NoBody,
           task |-> "absent", Records |-> <<>>] :
            s \in {"not_a_mapping", "query", "scheduled", "results", "other"}}
    \cup {[shape |-> "task", httpMethod |-> "absent", path |-> "absent",
           body |-> NoBody, task |-> t, Records |-> <<>>] : t \in Tasks}
    \cup {[shape |-> "records", httpMethod |-> "absent", path |-> "absent",
           body |-> NoBody, task |-> "absent", Records |-> rs] : rs \in RecordLists}

\* Lambda_function-1.py 129-229, as the dispatcher sees it: 200 with the
\* results, or 500 when the store call raises.  For an event that is not a
\* mapping event.get raises in the try block and again in the except
\* clause (222), so the exception leaves the handler.
query_replies(is_mapping) ==
    IF is_mapping
    THEN {Reply(200, {"success", "query", "index", "total_hits", "returned_hits",
                      "execution_time_seconds", "opensearch_took_ms", "results",
                      "aggregations", "metadata"}),
          Reply(500, {"success", "error", "query", "index"})}
    ELSE {Raised}

\* Lambda_function-1.py 231-269
execute_opensearch_aggregation(is_mapping) ==
    IF is_mapping
    THEN {Reply(200, {"success", "aggregations", "total_documents", "took_ms"}),
          Reply(500, {"success", "error"})}
    ELSE {Reply(500, {"success", "error"})}

\* Lambda_function-1.py 402-417, as the dispatcher sees it
status_replies ==
    {create_api_response(200, {"system_status", "opensearch_status",
                               "lambda_version", "timestamp"}),
     create_api_response(500, {"error"})}

\* Lambda_function-1.py 419-442
handle_test_request(body) ==
    IF body.form = "not_an_object"
    THEN {create_api_response(500, {"error"})}
    ELSE IF body.test_type \in {"absent", "connection", "embedding"}
         THEN {create_api_response(200, {"test_type", "result"}),
               create_api_response(500, {"error"})}
         ELSE {create_api_response(400, {"error"})}

\* Lambda_function-1.py 312-400: the response of the request recorded in r.
recommendation_reply(r) ==
    IF r.status = 200
    THEN create_api_response(200, {"user_id", "total_recommendations", "user_profile",
                                   "recommendations", "search_metadata"})
    ELSE IF r.message # "none"
         THEN create_api_response(r.status, {"message", "user_id", "recommendations"})
         ELSE IF r.lookup = "none" \/ r.status = 500
              THEN create_api_response(r.status, {"error"})
              ELSE create_api_response(r.status, {"error", "user_id"})

\* Lambda_function-1.py 556-594.  The loop has at least one record (97).
\* A record without the s3 keys raises KeyError (565-566), CVProcessor()
\* may raise (571), and CVProcessor has no method process_s3_file (574), so
\* the first record always ends in the except clause.
handle_cv_processing(Records) ==
    {[reply |-> Reply(500, {"error"}), processed_files |-> <<>>, cause |-> c] :
        c \in IF Records[1] = "no_s3_key"
              THEN {"KeyError"}
              ELSE {"CVProcessor() raised", "AttributeError: process_s3_file"}}

\* Lambda_function-1.py 596-620: run_scheduled_scrape (job_scraper.py 92-112)
\* turns every exception into a result, so 500 is left to JobScraper().
handle_job_scraping ==
    {Reply(200, {"message", "result"}), Reply(500, {"error"})}

\* Lambda_function-1.py 444-554.  CVProcessor has no method process_pending.
handle_manual_invoke(task) ==
    CASE task = "test_small_scrape" ->
            {Reply(200, {"message", "task", "result"}), Reply(500, {"error", "task"})}
      [] task = "test_connection" ->
            {Reply(200, {"message", "task", "opensearch_status"}),
             Reply(500, {"error", "task"})}
      [] task = "process_pending_cvs" -> {Reply(500, {"error", "task"})}
      [] task = "health_check" -> {Reply(200, {"message", "task", "health_status"})}
      [] OTHER -> {Reply(200, {"message", "task", "event_received", "available_tasks"})}

NoEvent ==
    [shape |-> "none", httpMethod |-> "absent", path |-> "absent", body |-> NoBody,
     task |-> "absent", Records |-> <<>>]

Invocation(event, route, result, detail) ==
    [event |-> event, route |-> route, raised |-> result.raised,
     statusCode |-> result.statusCode, body |-> result.body, detail |-> detail]

NoInvocation == Invocation(NoEvent, "none", Reply(0, {}), "none")

\* Lambda_function-1.py 271-310: the /recommendations route, which runs the
\* recommendation request against the store.
route_recommendations(event) ==
    /\ event.httpMethod = "POST" /\ event.path = "/recommendations"
    /\ event.body.form \in {"absent", "object"}
    /\ handle_recommendation_request(event.body.user_id)
    /\ lam' = Invocation(event, "handle_recommendation_request",
                         recommendation_reply(rec'), "none")

\* Lambda_function-1.py 271-310: every other path of the API Gateway route.
handle_api_gateway_request(event) ==
    IF event.body.form = "invalid_json"
    THEN {create_api_response(400, {"error"})}
    ELSE except_Exception(
            CASE event.httpMethod = "POST" /\ event.path = "/recommendations" ->
                    \* 316, 398-400: body.get raises for a body that is no object
                    {create_api_response(500, {"error"})}
              [] event.httpMethod = "POST" /\ event.path = "/search" ->
                    query_replies(event.body.form # "not_an_object")
              [] event.httpMethod = "POST" /\ event.path = "/aggregations" ->
                    execute_opensearch_aggregation(event.body.form # "not_an_object")
              [] event.httpMethod = "GET" /\ event.path = "/status" -> status_replies
              [] event.httpMethod = "POST" /\ event.path = "/test" ->
                    handle_test_request(event.body)
              [] OTHER -> {create_api_response(404, {"error"})},
            create_api_response(500, {"error"}))

\* Lambda_function-1.py 80-127: the results of the branch the event takes,
\* before the except clause of the handler.
dispatch(event) ==
    CASE event.shape = "not_a_mapping" -> {Raised}
      [] event.shape = "query" -> query_replies(TRUE)
      [] event.shape = "http" -> handle_api_gateway_request(event)
      [] event.shape = "scheduled" -> handle_job_scraping
      [] event.shape = "task" -> handle_manual_invoke(event.task)
      [] event.shape = "results" -> {Reply(200, {"message", "event_type", "event_data"})}
      [] OTHER -> handle_manual_invoke("test")

\* Lambda_function-1.py 80-127
lambda_handler(event) ==
    \/ /\ event.shape = "http"
       /\ route_recommendations(event)
    \/ /\ event.shape = "records"
       /\ \E r \in handle_cv_processing(event.Records) :
             lam' = Invocation(event, "handle_cv_processing", r.reply, r.cause)
       /\ rec' = rec
    \/ /\ event.shape # "records"
       /\ ~(event.shape = "http" /\ event.httpMethod = "POST"
            /\ event.path = "/recommendations"
            /\ event.body.form \in {"absent", "object"})
       /\ \E r \in except_Exception(dispatch(event), create_api_response(500, {"error"})) :
             lam' = Invocation(event, event.shape, r, "none")
       /\ rec' = rec

LambdaHandler ==
    /\ \E event \in Events : lambda_handler(event)
    /\ UNCHANGED <<jobIndex, cvIndex, jobCall, cvCall, srch, svc, emb, hc, qry, ext, cw, scr, cvp, bat, lvl>>

----------------------------------------------------------------------------
(* CVProcessor.process_cv_record *)

\* The clock of the host, in milliseconds: it never runs backwards.
MaxTime == 2

\* cv_processor.py 35: len(cv_text.strip()) < 50
MinCvTextLength == 50

\* The length of the cleaned text of a CV file.
CvTextLengths == {49, 9000}

\* An object key is the sequence of the parts between its slashes; a part
\* is its text, len(part) and part.endswith('.txt').
Part(text, length, txt) == [text |-> text, length |-> length, txt |-> txt]

ObjectKeys ==
    {<<Part("structured", 10, FALSE), Part("u1", 2, FALSE), Part("extracted_text.txt", 18, TRUE)>>,
     <<Part("structured", 10, FALSE), Part("", 0, FALSE), Part("cv.txt", 6, TRUE)>>,
     <<Part("uploads", 7, FALSE), Part("u1", 2, FALSE), Part("cv.txt", 6, TRUE)>>,
     <<Part("cv.txt", 6, TRUE)>>}

NoUserId == "None"

\* cv_processor.py 78-93
_extract_user_id_from_structured_path(object_key) ==
    IF Len(object_key) >= 3 /\ object_key[1].text = "structured"
    THEN object_key[2].text
    ELSE LET reasonable == {i \in 1..Len(object_key) :
                               /\ object_key[i].length > 3
                               /\ object_key[i].text # "structured"
                               /\ ~object_key[i].txt}
         IN  IF reasonable = {} THEN NoUserId
             ELSE object_key[CHOOSE i \in reasonable : \A j \in reasonable : i <= j].text

\* cv_processor.py 30: not user_id
no_user_id(user_id) == user_id = NoUserId \/ user_id = ""

\* A document whose timestamp is left at zero.
cv_document_without_timestamp(user_id, text_length, cv_embedding, now) ==
    [user_id |-> user_id, cv_text |-> "text", cv_embedding |-> cv_embedding,
     timestamp |-> 0, text_length |-> text_length]

\* cv_processor.py 45-56: the profile; timestamp is int(time.time() * 1000)
\* at the time of this call.
cv_document(user_id, text_length, cv_embedding, now) ==
    [user_id |-> user_id, cv_text |-> "text", cv_embedding |-> cv_embedding,
     timestamp |-> now, text_length |-> text_length]

NoCvDocument ==
    [user_id |-> "absent", cv_text |-> "absent", cv_embedding |-> ABSENT,
     timestamp |-> 0, text_length |-> 0]

CvRecord(object_key, file_length, now, user_id, document, status, error, opensearch_result) ==
    [object_key |-> object_key, file_length |-> file_length, now |-> now,
     user_id |-> user_id, document |-> document, status |-> status, error |-> error,
     opensearch_result |-> opensearch_result]

NoCvRecord == CvRecord(<<>>, 0, 1, NoUserId, NoCvDocument, "none", "none", "none")

\* cv_processor.py 19-76, for the S3 record with the given key whose file
\* has file_length characters once cleaned; read_ok tells whether S3 gave
\* the file, generated is what generate_embedding did, now is the clock.
\* Every exception ends in the except clause (70-76), which returns an
\* error result.
process_cv_record(object_key, file_length, read_ok, generated, now) ==
    LET user_id == _extract_user_id_from_structured_path(object_key)
        text_length == read_cv_text_length(file_length)
        document == cv_document(user_id, text_length, generated, now)
        failed(error) ==
            /\ cvp' = CvRecord(object_key, file_length, now, user_id, NoCvDocument,
                               "error", error, "none")
            /\ UNCHANGED <<cvIndex, cvCall, lvl>>
    IN
    \/ \* 29-31
       /\ no_user_id(user_id)
       /\ failed("Cannot extract user_id from key")
    \/ \* 34, 112-114: get_object raises
       /\ ~no_user_id(user_id)
       /\ ~read_ok
       /\ failed("S3 error")
    \/ \* 35-36
       /\ ~no_user_id(user_id)
       /\ read_ok
       /\ text_length < MinCvTextLength
       /\ failed("CV text is too short or empty")
    \/ \* 39: generate_embedding raises
       /\ ~no_user_id(user_id)
       /\ read_ok
       /\ text_length >= MinCvTextLength
       /\ generated = GenerateException
       /\ failed("embedding error")
    \/ \* 45-68: the profile is written
       /\ ~no_user_id(user_id)
       /\ read_ok
       /\ text_length >= MinCvTextLength
       /\ generated # GenerateException
       /\ index_cv_document(user_id, document)
       /\ cvp' = CvRecord(object_key, file_length, now, user_id, document,
                          IF cvCall'.outcome = "returned" THEN "success" ELSE "error",
                          IF cvCall'.outcome = "returned" THEN "none" ELSE cvCall'.exc.kind,
                          IF cvCall'.outcome = "returned"
                          THEN IndexResult(cvIndex, user_id) ELSE "none")

\* One record processed.  The clock reading is not before the last one; an
\* input the call does not reach is not enumerated.
ProcessCvRecord ==
    /\ \E object_key \in ObjectKeys, file_length \in CvTextLengths,
          read_ok \in BOOLEAN, generated \in {GenerateException} \cup ValidVectors,
          now \in cvp.now..MaxTime :
          /\ no_user_id(_extract_user_id_from_structured_path(object_key))
                => read_ok /\ file_length = 49
          /\ ~read_ok => file_length = 49
          /\ (~read_ok \/ file_length < MinCvTextLength
                \/ no_user_id(_extract_user_id_from_structured_path(object_key)))
                => generated = GenerateException
          /\ process_cv_record(object_key, file_length, read_ok, generated, now)
    /\ UNCHANGED <<jobIndex, jobCall, srch, rec, svc, emb, hc, qry, ext, cw, scr, lam, bat, lvl>>

----------------------------------------------------------------------------
(* scrape_and_embed_jobs and scrape_small_batch: the loop over the batch *)

\* The most jobs a scraping run finds.
MaxJobs == 2

\* job_scraper.py 51: jobs[:5]
SmallBatchSize == 5

ScrapeOps == {"scrape_and_embed_jobs", "scrape_small_batch"}

\* What generate_embedding gives for a job of the batch.
BatchGenerateOutcomes == {GenerateException} \cup ValidVectors

NoAttempt ==
    [job_id |-> "none", processed |-> FALSE, text_length |-> 0, generated |-> ABSENT,
     document |-> NoScrape.document, written |-> FALSE, raised |-> FALSE]

Batch(op, pc, total, n, pos, processed_jobs, embedding_success, embedding_failures, persisted, last) ==
    [op |-> op, pc |-> pc, total |-> total, n |-> n, pos |-> pos,
     processed_jobs |-> processed_jobs, embedding_success |-> embedding_success,
     embedding_failures |-> embedding_failures, persisted |-> persisted, last |-> last]

NoBatch == Batch("none", "idle", 0, 0, 0, 0, 0, 0, 0, NoAttempt)

\* job_scraper.py 152 and 51: the jobs the loop goes over.
batch_length(op, total) ==
    IF op = "scrape_small_batch" /\ total > SmallBatchSize THEN SmallBatchSize ELSE total

\* A loop that stops at the first job whose processing or write raises.
loop_goes_on_unless_raised(raised) == ~raised

\* job_scraper.py 67-70 and 167-170: the except clause of the loop body
\* ends in 'continue'.
loop_goes_on(raised) == TRUE

\* job_scraper.py 128-150 and 43-49: the jobs are scraped and the counters
\* set to zero.
StartBatch ==
    /\ bat.pc \in {"idle", "done"}
    /\ \E op \in ScrapeOps, total \in 0..MaxJobs :
          bat' = Batch(op, "loop", total, batch_length(op, total), 0, 0, 0, 0, 0, NoAttempt)
    /\ UNCHANGED <<jobIndex, cvIndex, jobCall, cvCall, srch, rec, svc, emb, hc, qry, ext, cw, scr, lam, cvp, lvl>>

\* job_scraper.py 153-155 and 428-430: _process_and_embed_job raises inside
\* (a job without a company, say) and returns None: the job is skipped and
\* no counter moves.
JobNotProcessed ==
    /\ bat.pc = "loop"
    /\ bat.pos < bat.n
    /\ \E job_id \in JobIds :
          bat' = [bat EXCEPT !.pos = bat.pos + 1,
                             !.last = [NoAttempt EXCEPT !.job_id = job_id]]
    /\ UNCHANGED <<jobIndex, cvIndex, jobCall, cvCall, srch, rec, svc, emb, hc, qry, ext, cw, scr, lam, cvp, lvl>>

\* job_scraper.py 153-170 (and 52-70): the job is processed, appended to
\* processed_jobs and counted by its embedding_status, then written; when
\* the write raises, the except clause adds one to embedding_failures.
JobProcessed ==
    /\ bat.pc = "loop"
    /\ bat.pos < bat.n
    /\ \E job_id \in JobIds, text_length \in JobTextLengths,
          generated \in BatchGenerateOutcomes :
          LET processed_job == _process_and_embed_job(text_length, generated)
              success == processed_job.embedding_status = "success"
          IN  /\ text_length < MinJobTextLength => generated = GenerateException
              /\ index_job_document(job_id, processed_job)
              /\ LET raised == jobCall'.outcome = "raised" IN
                 bat' = [bat EXCEPT
                    !.pos = bat.pos + 1,
                    !.pc = IF loop_goes_on(raised) THEN "loop" ELSE "done",
                    !.processed_jobs = bat.processed_jobs + 1,
                    !.embedding_success = bat.embedding_success + (IF success THEN 1 ELSE 0),
                    !.embedding_failures = bat.embedding_failures
                                             + (IF success THEN 0 ELSE 1)
                                             + (IF raised THEN 1 ELSE 0),
                    !.persisted = bat.persisted + (IF raised THEN 0 ELSE 1),
                    !.last = [job_id |-> job_id, processed |-> TRUE,
                              text_length |-> text_length, generated |-> generated,
                              document |-> processed_job, written |-> TRUE,
                              raised |-> raised]]
    /\ UNCHANGED <<cvIndex, cvCall, srch, rec, svc, emb, hc, qry, ext, cw, scr, lam, cvp, lvl>>

\* job_scraper.py 172-182 (and 72-79): the result is built from the
\* counters once the loop is over.
FinishBatch ==
    /\ bat.pc = "loop"
    /\ bat.pos = bat.n
    /\ bat' = [bat EXCEPT !.pc = "done"]
    /\ UNCHANGED <<jobIndex, cvIndex, jobCall, cvCall, srch, rec, svc, emb, hc, qry, ext, cw, scr, lam, cvp, lvl>>

NextBatch == StartBatch \/ JobNotProcessed \/ JobProcessed \/ FinishBatch

----------------------------------------------------------------------------
(* _extract_experience_level *)

\* job_scraper.py 462
senior_keywords ==
    {<<"s", "e", "n", "i", "o", "r">>, <<"l", "e", "a", "d">>,
     <<"p", "r", "i", "n", "c", "i", "p", "a", "l">>, <<"5", "+">>, <<"3", "+">>,
     <<"e", "x", "p", "e", "r", "i", "e", "n", "c", "e", "d">>,
     <<"e", "x", "p", "e", "r", "t">>}

\* job_scraper.py 463
junior_keywords ==
    {<<"j", "u", "n", "i", "o", "r">>, <<"e", "n", "t", "r", "y">>,
     <<"g", "r", "a", "d", "u", "a", "t", "e">>, <<"i", "n", "t", "e", "r", "n">>,
     <<"f", "r", "e", "s", "h">>, <<"0", "-", "2">>,
     <<"t", "r", "a", "i", "n", "e", "e">>}

\* keyword in text
Contains(keyword, text) ==
    \E i \in 1..(Len(text) - Len(keyword) + 1) :
        SubSeq(text, i, i + Len(keyword) - 1) = keyword

\* The words of the job texts.  senior and junior tell whether the word,
\* read without regard to case, has a seniority or a junior keyword in it.
Word(chars, senior, junior) == [chars |-> chars, senior |-> senior, junior |-> junior]

Words ==
    {Word(<<"s", "e", "n", "i", "o", "r">>, TRUE, FALSE),
     Word(<<"S", "e", "n", "i", "o", "r">>, TRUE, FALSE),
     Word(<<"L", "E", "A", "D">>, TRUE, FALSE),
     Word(<<"3", "+">>, TRUE, FALSE),
     Word(<<"e", "x", "p", "e", "r", "t">>, TRUE, FALSE),
     Word(<<"j", "u", "n", "i", "o", "r">>, FALSE, TRUE),
     Word(<<"I", "n", "t", "e", "r", "n">>, FALSE, TRUE),
     Word(<<"0", "-", "2">>, FALSE, TRUE),
     Word(<<"i", "n", "t", "e", "r", "n", "a", "l">>, FALSE, TRUE),
     Word(<<"d", "e", "v">>, FALSE, FALSE),
     Word(<<"m", "i", "d">>, FALSE, FALSE)}

\* The most words of a job text.
MaxWords == 2

JobTexts == SeqsUpTo(Words, MaxWords)

\* The characters of a text: its words with a space between them.
RECURSIVE Chars(_)
Chars(words) ==
    IF words = <<>> THEN <<>>
    ELSE IF Len(words) = 1 THEN words[1].chars
    ELSE words[1].chars \o <<" ">> \o Chars(Tail(words))

\* A reading that looks for the junior keywords first.
_extract_experience_level_junior_first(job_text) ==
    LET text_lower == LowerString(job_text) IN
    IF \E keyword \in junior_keywords : Contains(keyword, text_lower) THEN "junior"
    ELSE IF \E keyword \in senior_keywords : Contains(keyword, text_lower) THEN "senior"
    ELSE "mid"

\* job_scraper.py 458-470
_extract_experience_level(job_text) ==
    LET text_lower == LowerString(job_text) IN
    IF \E keyword \in senior_keywords : Contains(keyword, text_lower) THEN "senior"
    ELSE IF \E keyword \in junior_keywords : Contains(keyword, text_lower) THEN "junior"
    ELSE "mid"

NoLevel == [words |-> <<>>, experience_level |-> "none"]

\* job_scraper.py 376: the level of one job text.
ExtractLevel ==
    /\ \E words \in JobTexts :
          lvl' = [words |-> words,
                  experience_level |-> _extract_experience_level(Chars(words))]
    /\ UNCHANGED <<jobIndex, cvIndex, jobCall, cvCall, srch, rec, svc, emb, hc, qry, ext, cw, scr, lam, cvp, bat>>

----------------------------------------------------------------------------
(* Specifications of the writers *)

EmptyIndex == [x \in {} |-> ABSENT]

Init ==
    /\ jobIndex = EmptyIndex
    /\ cvIndex = EmptyIndex
    /\ jobCall = NoJobCall
    /\ cvCall = NoCvCall
    /\ srch = NoSearch
    /\ rec = NoRec
    /\ svc = NoService
    /\ emb = NoEmbeddingCall
    /\ hc = NoStatus
    /\ qry = NoQuery
    /\ ext = NoExtractions
    /\ cw = NoWriters
    /\ scr = NoScrape
    /\ lam = NoInvocation
    /\ cvp = NoCvRecord
    /\ bat = NoBatch
    /\ lvl = NoLevel

\* Writers of the job index.
SpecJob == Init /\ [][IndexJob]_vars

\* Writers of the candidate index.
SpecCv == Init /\ [][IndexCv]_vars

----------------------------------------------------------------------------
(* Specifications of the readers.  A request finds the store with whatever  *)
(* the writers left in it: job postings as _process_and_embed_job builds    *)
(* them and index_job_document stores them (no embedding, or a valid one),  *)
(* and profiles as index_cv_document stores them (no embedding, a valid     *)
(* one, or a non-empty list that passed its emptiness test).                *)

StoredJobDocuments ==
    {[job_embedding |-> e,
      embedding_status |-> IF e = ABSENT THEN "skipped_short_text" ELSE "success",
      scraped_date |-> d] : e \in ValidVectors \cup {ABSENT}, d \in 1..MaxDate}

StoredCvDocuments(user_id) ==
    {[user_id |-> user_id, cv_text |-> "text", cv_embedding |-> e] :
        e \in ValidVectors \cup {ABSENT, PyList(<<"null">>)}}

StoredJobIndexes ==
    UNION {[ids -> StoredJobDocuments] : ids \in SUBSET JobIds}

StoredCvIndexes ==
    UNION { {f \in [ids -> UNION {StoredCvDocuments(u) : u \in ids}] :
               \A u \in ids : f[u].user_id = u} : ids \in SUBSET UserIds }

InitReaders ==
    /\ jobIndex \in StoredJobIndexes
    /\ cvIndex \in StoredCvIndexes
    /\ jobCall = NoJobCall
    /\ cvCall = NoCvCall
    /\ srch = NoSearch
    /\ rec = NoRec
    /\ svc = NoService
    /\ emb = NoEmbeddingCall
    /\ hc = NoStatus
    /\ qry = NoQuery
    /\ ext = NoExtractions
    /\ cw = NoWriters
    /\ scr = NoScrape
    /\ lam = NoInvocation
    /\ cvp = NoCvRecord
    /\ bat = NoBatch
    /\ lvl = NoLevel

\* Direct calls of search_similar_jobs.
SpecSearch == InitReaders /\ [][SearchSimilarJobs]_vars

\* Recommendation requests.
SpecRec == InitReaders /\ [][Recommend]_vars

\* One EmbeddingService: its construction, then generate_embedding calls.
SpecEmb == Init /\ [][NextEmbedding]_vars

\* Status requests over an index the writers left.
SpecStatus == InitReaders /\ [][StatusRequest]_vars

\* The indexes the writers leave after one scraping run: every posting has
\* the same scraped_date.
InitQuery ==
    /\ InitReaders
    /\ \A id \in DOMAIN jobIndex : jobIndex[id].scraped_date = 1

\* Direct searches: search_similar_jobs and the raw query endpoint.
SpecQuery == InitQuery /\ [][SearchSimilarJobs \/ OpenSearchQuery]_vars

\* The scraper extracting job cards one after the other.
SpecJobId == Init /\ [][ExtractJob]_vars

\* Two callers of index_job_document, interleaved at the store calls.
SpecConc == Init /\ [][NextWriters]_vars

\* The scraper: jobs processed and written one after the other.
SpecScrape == Init /\ [][ScrapeJob]_vars

\* The store a request finds after one candidate and one scraping run.
InitLambda ==
    /\ InitQuery
    /\ DOMAIN cvIndex \subseteq {"u1"}

\* Invocations of the Lambda entry point, one event after the other.
SpecLambda == InitLambda /\ [][LambdaHandler]_vars

\* CV records processed one after the other, and recommendation requests
\* in between.
SpecCvProc == Init /\ [][ProcessCvRecord \/ Recommend]_vars

\* One call of a writer, by a caller that holds on to its document, on a
\* store the writers left.
FirstIndexJob == jobCall = NoJobCall /\ cvCall = NoCvCall /\ IndexJob

FirstIndexCv == jobCall = NoJobCall /\ cvCall = NoCvCall /\ IndexCv

SpecFrame == InitReaders /\ [][FirstIndexJob \/ FirstIndexCv]_vars

\* Job texts classified one after the other.
SpecLevel == Init /\ [][ExtractLevel]_vars

\* Scraping runs, one after the other, each a loop over its jobs.
SpecBatch == Init /\ [][NextBatch]_vars

----------------------------------------------------------------------------
(* Properties of the writers *)

\* What the writers leave in the job index: every document has no embedding
\* or a valid one (this is the job-index half of C1, which holds).
JobIndexEmbeddingsValid ==
    \A id \in DOMAIN jobIndex :
        \/ jobIndex[id].job_embedding = ABSENT
        \/ ValidVector(jobIndex[id].job_embedding)

CvIndexEmbeddingsValid ==
    \A id \in DOMAIN cvIndex :
        \/ cvIndex[id].cv_embedding = ABSENT
        \/ ValidVector(cvIndex[id].cv_embedding)

\* C1: after any sequence of index_cv_document and index_job_document calls
\* no stored document of cv-index or job-index has an embedding field that is
\* empty, holds a null entry or holds a non-numeric entry.
C1_NoInvalidEmbeddingStored ==
    CvIndexEmbeddingsValid /\ JobIndexEmbeddingsValid

\* The job-index half of C2 (holds): a job document with an invalid embedding
\* is written without it, and only the store can reject the call.
JobInvalidEmbeddingDegrades ==
    (/\ jobCall.outcome # "none"
     /\ jobCall.document.job_embedding # ABSENT
     /\ ~ValidVector(jobCall.document.job_embedding))
    => /\ jobCall.writes[1].job_embedding = ABSENT
       /\ jobCall.outcome = "raised" => jobCall.exc.kind = "TransportError"
       /\ jobCall.outcome = "returned" =>
             jobIndex[jobCall.job_id].job_embedding = ABSENT

CvInvalidEmbeddingDegrades ==
    (/\ cvCall.outcome # "none"
     /\ cvCall.document.user_id # "absent"
     /\ cvCall.document.cv_text # "absent"
     /\ cvCall.document.cv_embedding # ABSENT
     /\ ~ValidVector(cvCall.document.cv_embedding))
    => /\ cvCall.outcome = "raised" => cvCall.exc.kind = "TransportError"
       /\ cvCall.outcome = "returned" =>
             cvIndex[cvCall.user_id].cv_embedding = ABSENT

\* C2: a document with its required fields and an invalid embedding (null,
\* not a list, empty, or with a null or non-numeric entry) is written without
\* the embedding field whenever the store accepts the write, and the call is
\* never rejected because of the embedding alone.
C2_InvalidEmbeddingDegrades ==
    CvInvalidEmbeddingDegrades /\ JobInvalidEmbeddingDegrades

\* str(e) names the vector field, its type or a null.
LooksEmbeddingRelated(e) ==
    e.mentions \cap {"job_embedding", "knn_vector", "null"} # {}

C8_Step ==
    LET c == jobCall' IN
    /\ Len(c.writes) \in {1, 2}
    /\ c.first_exc = NoError =>
          /\ Len(c.writes) = 1
          /\ c.outcome = "returned"
    /\ (c.first_exc # NoError /\ ~LooksEmbeddingRelated(c.first_exc)) =>
          /\ Len(c.writes) = 1
          /\ c.outcome = "raised" /\ c.exc = c.first_exc
          /\ jobIndex' = jobIndex
    /\ (c.first_exc # NoError /\ LooksEmbeddingRelated(c.first_exc)) =>
          /\ Len(c.writes) = 2
          /\ c.writes[2].job_embedding = ABSENT
          /\ c.writes[2].embedding_status = "removed_due_to_indexing_error"
          /\ c.writes[2].scraped_date = c.document.scraped_date
          /\ c.outcome = "returned" => jobIndex'[c.job_id] = c.writes[2]
          /\ c.outcome = "raised" =>
                /\ c.exc.kind = "TransportError"
                /\ jobIndex' = jobIndex

\* C8: index_job_document writes to the store at most twice per call; after
\* an embedding-related rejection of the first write it retries exactly once
\* with a document without job_embedding whose embedding_status records the
\* removal; after any other rejection it does not retry; when the retry
\* fails too the error is raised and the index is left as it was.
C8_AtMostOneRetry == [][C8_Step]_vars

\* A valid embedding was rejected by the store and the retry went through.
C8_Witness ==
    /\ jobCall.outcome = "returned"
    /\ Len(jobCall.writes) = 2
    /\ ValidVector(jobCall.document.job_embedding)
    /\ jobIndex[jobCall.job_id].job_embedding = ABSENT

C9_Step ==
    LET c == cvCall' IN
    (c.outcome # "none"
        /\ (c.document.user_id = "absent" \/ c.document.cv_text = "absent"))
    => /\ c.outcome = "raised"
       /\ c.exc.kind = "ValueError"
       /\ c.writes = <<>>
       /\ cvIndex' = cvIndex

\* C9: index_cv_document on a document without user_id or cv_text raises a
\* validation error, hands nothing to the store and leaves the index as it
\* was.
C9_MissingFieldRejected == [][C9_Step]_vars

\* A document without cv_text was refused while the index held a profile.
C9_Witness ==
    /\ cvCall.exc.kind = "ValueError"
    /\ cvCall.document.user_id # "absent"
    /\ cvCall.document.cv_text = "absent"
    /\ DOMAIN cvIndex # {}

----------------------------------------------------------------------------
(* Properties of the readers *)

HitIds(hits) == {hits[i]._id : i \in 1..Len(hits)}

StoredWithValidEmbedding(id) ==
    /\ id \in DOMAIN jobIndex
    /\ ValidVector(jobIndex[id].job_embedding)

\* C3: whenever job-index holds a job with a valid embedding, no document
\* returned by search_similar_jobs lacks a job_embedding in the index, on
\* every path (k-NN, old version, fallback after an exception), and no such
\* document becomes a recommendation.
C3_NoHitWithoutEmbedding ==
    (/\ rec.search.outcome = "returned"
     /\ \E id \in DOMAIN jobIndex : StoredWithValidEmbedding(id))
    => /\ \A id \in HitIds(rec.search.hits) : StoredWithValidEmbedding(id)
       /\ \A i \in 1..Len(rec.recommendations) :
             StoredWithValidEmbedding(rec.recommendations[i].job_id)

\* C3 as amended: on the k-NN path and on the old-version path no returned
\* document lacks a job_embedding in the index and none becomes a
\* recommendation; the fallback after an exception is a match_all query,
\* which may return documents without an embedding.
C3_Amended ==
    (/\ rec.search.outcome = "returned"
     /\ rec.search.query \in {"knn", "exists"})
    => /\ \A id \in HitIds(rec.search.hits) : StoredWithValidEmbedding(id)
       /\ \A i \in 1..Len(rec.recommendations) :
             StoredWithValidEmbedding(rec.recommendations[i].job_id)

\* Recommendations from a k-NN search over an index that also holds a job
\* without an embedding.
C3_Witness ==
    /\ rec.status = 200
    /\ rec.search.query = "knn"
    /\ Len(rec.recommendations) = 1
    /\ \E id \in DOMAIN jobIndex : jobIndex[id].job_embedding = ABSENT

\* No stored posting outside the hits was scraped after one of the hits.
MostRecentlyScraped(hits) ==
    \A i \in 1..Len(hits) : \A id \in DOMAIN jobIndex \ HitIds(hits) :
        jobIndex[id].scraped_date <= hits[i]._source.scraped_date

DegradedSearch == srch.check \in {"old_version", "info_failed"}

\* C4: when the engine has no native k-NN, or the version check fails,
\* search_similar_jobs answers with at most `size` postings, the most
\* recently scraped ones of the index, without their embeddings.
C4_DegradesToMostRecent ==
    (DegradedSearch /\ srch.outcome = "returned")
    => /\ Len(srch.hits) <= srch.size
       /\ \A i \in 1..Len(srch.hits) : srch.hits[i]._source.job_embedding = ABSENT
       /\ MostRecentlyScraped(srch.hits)

\* C4 as amended: in those two cases the call raises only when the last
\* match_all search raises; otherwise it returns at most `size` distinct
\* postings of the index without their embeddings, in no promised order:
\* on the old-version path postings that have an embedding, after a failed
\* version check (or a failed search) any postings.
C4_Amended ==
    DegradedSearch
    => /\ srch.outcome = "raised" => (srch.query = "match_all" /\ srch.hits = <<>>)
       /\ srch.outcome = "returned" =>
             /\ Len(srch.hits) <= srch.size
             /\ Cardinality(HitIds(srch.hits)) = Len(srch.hits)
             /\ \A i \in 1..Len(srch.hits) :
                   /\ srch.hits[i]._id \in DOMAIN jobIndex
                   /\ srch.hits[i]._source.job_embedding = ABSENT
                   /\ srch.hits[i]._source.scraped_date
                         = jobIndex[srch.hits[i]._id].scraped_date
             /\ srch.query = "exists" =>
                   \A id \in HitIds(srch.hits) : StoredWithValidEmbedding(id)
             /\ srch.check = "info_failed" => srch.query = "match_all"

\* The old-version path filled `size` with a posting older than one it left out.
C4_Witness ==
    /\ srch.check = "old_version"
    /\ srch.query = "exists"
    /\ srch.outcome = "returned"
    /\ Len(srch.hits) = srch.size
    /\ ~MostRecentlyScraped(srch.hits)

StoredProfiles(user_id) ==
    {id \in DOMAIN cvIndex : cvIndex[id].user_id = user_id}

C6_NoEmbeddingNotFound ==
    (/\ rec.lookup = "found"
     /\ \A id \in StoredProfiles(rec.user_id) :
           cvIndex[id].cv_embedding \in {ABSENT, PyNone, PyList(<<>>)})
    => /\ rec.status = 404
       /\ rec.search = NoSearch

\* C10: when the candidate has a usable embedding and the search returns no
\* hit, the response carries an empty recommendation list and is no error
\* response (no 4xx, no 5xx).
C10_EmptyResultIsNoError ==
    (/\ rec.lookup = "found"
     /\ ValidVector(rec.search.cv_embedding)
     /\ rec.search.outcome = "returned"
     /\ rec.search.hits = <<>>)
    => /\ rec.recommendations = <<>>
       /\ rec.status < 400

----------------------------------------------------------------------------
(* Properties of the embedding service *)

\* How many of the calls went to one model.
CallsTo(model) == Cardinality({i \in 1..Len(emb.calls) : emb.calls[i] = model})

\* A generate_embedding call on a text that passes the length check.
GenerateOnValidText ==
    /\ emb.op = "generate"
    /\ emb.text.stripped >= MinTextLength

\* C7: a generate_embedding call on a valid text fails only after both
\* models are exhausted: when it raises, the primary and the secondary model
\* have each been attempted 3 times.
C7_FallsOverToSecondary ==
    (GenerateOnValidText /\ emb.pc = "done" /\ emb.outcome = "raised")
    => \A i \in 1..Len(model_ids) : CallsTo(model_ids[i]) = 3

\* C7 as the code has it: a generate_embedding call on a valid text attempts
\* only the model chosen at construction, at most 3 times, sleeping 1 s then
\* 2 s between the attempts; it raises exactly when the third attempt has
\* failed, and what it returns is a non-empty list of numbers.
C7_Amended ==
    GenerateOnValidText
    => /\ \A i \in 1..Len(emb.calls) : emb.calls[i] = svc.current_model
       /\ Len(emb.calls) <= 3
       /\ \A i \in 1..Len(emb.sleeps) : emb.sleeps[i] = 2 ^ (i - 1)
       /\ emb.pc = "calling" => Len(emb.sleeps) = Len(emb.calls)
       /\ emb.pc = "done" => Len(emb.sleeps) = Len(emb.calls) - 1
       /\ (emb.pc = "done" /\ emb.outcome = "raised") => Len(emb.calls) = 3
       /\ (emb.pc = "done" /\ emb.outcome = "returned") => ValidVector(emb.embedding)

C7_Witness ==
    /\ GenerateOnValidText
    /\ emb.pc = "done"
    /\ emb.outcome = "raised"
    /\ emb.calls = <<svc.current_model, svc.current_model, svc.current_model>>
    /\ emb.sleeps = <<1, 2>>

\* For every numeric score the percentage is within 0..100 and does not
\* decrease when the score grows.
MatchPercentageMonotone ==
    \A a, b \in ScoreNumbers :
       /\ match_percentage(PyFloat(a)) \in 0..100
       /\ a <= b => match_percentage(PyFloat(a)) <= match_percentage(PyFloat(b))

\* The same for the recommendations of a response.
MatchPercentageBounded ==
    \A i, j \in 1..Len(rec.recommendations) :
       /\ rec.recommendations[i].match_percentage \in 0..100
       /\ rec.recommendations[i].similarity_score.n <= rec.recommendations[j].similarity_score.n
          => rec.recommendations[i].match_percentage <= rec.recommendations[j].match_percentage

\* C11: whatever the raw score of a hit is (zero, negative, very large,
\* missing, null), every hit of a successful search gets a recommendation
\* whose match_percentage is an integer of 0..100, and a greater score never
\* gets a smaller percentage.
C11_MatchPercentageForEveryScore ==
    (rec.search.outcome = "returned" /\ rec.search.hits # <<>>)
    => /\ Len(rec.recommendations) = Len(rec.search.hits)
       /\ MatchPercentageBounded

----------------------------------------------------------------------------
(* Properties of the status request *)

StatusCallRaised(i) == hc.opensearch_status.calls[i] = "raised"

\* C12: test_connection never raises, and whenever any of its store calls
\* fails the record it returns says 'failed' and carries the error; the
\* status endpoint answers with that record.
C12_AnyFailureIsFailed ==
    (hc.constructed /\ \E i \in 1..6 : StatusCallRaised(i))
    => /\ hc.opensearch_status.status = "failed"
       /\ hc.opensearch_status.error # "none"
       /\ hc.statusCode = 200

\* C12 as the code has it: with the manager constructed the status endpoint
\* answers 200 with the record of test_connection; the record says 'failed',
\* with the error, exactly when cluster.health or an indices.exists call
\* raised; a count call that raises is only logged, the record says
\* 'connected' and the counts it could not get are 0.
C12_Amended ==
    hc.constructed
    => /\ hc.statusCode = 200
       /\ hc.opensearch_status.status \in {"connected", "failed"}
       /\ hc.opensearch_status.status = "failed"
          <=> \E i \in 1..3 : StatusCallRaised(i)
       /\ hc.opensearch_status.status = "failed"
          <=> hc.opensearch_status.error # "none"
       /\ \A i \in 1..3 : StatusCallRaised(i) => hc.opensearch_status.error = CallOrder[i]
       /\ (StatusCallRaised(4) /\ hc.opensearch_status.status = "connected")
          => hc.opensearch_status.cv_document_count = 0
       /\ (StatusCallRaised(5) /\ hc.opensearch_status.status = "connected")
          => /\ hc.opensearch_status.job_document_count = 0
             /\ hc.opensearch_status.jobs_with_embeddings = 0
       /\ StatusCallRaised(6)
          => /\ hc.opensearch_status.status = "connected"
             /\ hc.opensearch_status.jobs_with_embeddings = 0
             /\ hc.opensearch_status.jobs_without_embeddings = 0

\* The cluster does not answer: cluster.health raises, and the endpoint
\* answers 200 with a 'failed' record that names the error.
C12_Witness ==
    /\ hc.constructed
    /\ hc.statusCode = 200
    /\ hc.opensearch_status.status = "failed"
    /\ StatusCallRaised(1)
    /\ hc.opensearch_status.error = "health"

----------------------------------------------------------------------------
(* Properties of the responses *)

\* C13: no hit that search_similar_jobs returns, on the k-NN path, on the
\* old-version path or on the match_all fallback, and no result of the raw
\* query endpoint, carries an embedding: the job_embedding and cv_embedding
\* keys are absent from every returned source.
C13_NoVectorInResponse ==
    /\ \A i \in 1..Len(srch.hits) : srch.hits[i]._source.job_embedding = ABSENT
    /\ \A i \in 1..Len(qry.results) :
          /\ qry.results[i].source.job_embedding = ABSENT
          /\ qry.results[i].source.cv_embedding = ABSENT

\* A search returned a posting that is stored with its vector, and a raw
\* query on cv-index returned a profile that is stored with its vector.
C13_Witness ==
    /\ \E i \in 1..Len(srch.hits) :
          ValidVector(jobIndex[srch.hits[i]._id].job_embedding)
    /\ qry.index = "cv-index"
    /\ \E i \in 1..Len(qry.results) :
          ValidVector(cvIndex[qry.results[i].id].cv_embedding)

\* The recommendations are built from named fields of the hits, none of
\* which is the embedding.
RecommendationsCarryNoVector ==
    \A i \in 1..Len(rec.search.hits) :
       rec.search.hits[i]._source.job_embedding = ABSENT

----------------------------------------------------------------------------
(* Properties of the job identifier *)

\* The letter of a character, whatever its case.
Letter(ch) ==
    CASE ch \in {"a", "A"} -> "a"
      [] ch \in {"c", "C"} -> "c"
      [] ch \in {"u", "U"} -> "u"
      [] OTHER -> ch

SameLetters(s, t) ==
    /\ Len(s) = Len(t)
    /\ \A i \in 1..Len(s) : Letter(s[i]) = Letter(t[i])

Extracted(x) == x # NoExtraction

\* C14: two extracted listings whose title, company and url are the same
\* up to letter case have the same job_id, whatever their descriptions; in
\* particular the same inputs give the same id twice.
C14_JobIdDeterministic ==
    (/\ Extracted(ext.prev)
     /\ Extracted(ext.cur)
     /\ SameLetters(ext.prev.title, ext.cur.title)
     /\ SameLetters(ext.prev.company, ext.cur.company)
     /\ SameLetters(ext.prev.job_url, ext.cur.job_url))
    => ext.prev.job_id = ext.cur.job_id

\* Two listings that differ in the case of the title, company and url and
\* in the description, with one id.
C14_Witness ==
    /\ Extracted(ext.prev)
    /\ Extracted(ext.cur)
    /\ ext.prev.title = <<"a", "b">>
    /\ ext.cur.title = <<"A", "b">>
    /\ ext.prev.company # ext.cur.company
    /\ ext.prev.job_url = <<"u">>
    /\ ext.cur.job_url = <<"U">>
    /\ ext.prev.description # ext.cur.description
    /\ ext.prev.job_id = ext.cur.job_id

----------------------------------------------------------------------------
(* Properties of the job index over a sequence of writes *)

C15_Step ==
    LET c == jobCall' IN
    /\ DOMAIN jobIndex \subseteq DOMAIN jobIndex'
    /\ c.outcome = "returned"
       => /\ DOMAIN jobIndex' = DOMAIN jobIndex \cup {c.job_id}
          /\ jobIndex'[c.job_id] = c.writes[Len(c.writes)]
          /\ jobIndex'[c.job_id].job_embedding \in {ABSENT, c.document.job_embedding}
          /\ jobIndex'[c.job_id].scraped_date = c.document.scraped_date
          /\ \A id \in DOMAIN jobIndex \ {c.job_id} : jobIndex'[id] = jobIndex[id]
    /\ c.outcome = "raised" => jobIndex' = jobIndex

\* C15: every index_job_document call that returns leaves, under its job_id,
\* exactly the sanitised document of its last store write, in place of
\* whatever was stored under that id, and leaves every other id alone; a
\* call that raises leaves the index as it was; no call removes an id.
C15_LastWriteWins == [][C15_Step]_vars

\* A successful write replaced a posting that was already stored, next to
\* another posting.
C15_Witness ==
    /\ jobCall.outcome = "returned"
    /\ jobCall.result = "updated"
    /\ DOMAIN jobIndex = JobIds
    /\ jobIndex[jobCall.job_id] = jobCall.writes[Len(jobCall.writes)]
    /\ \E id \in JobIds : jobIndex[id] # jobIndex[jobCall.job_id]

----------------------------------------------------------------------------
(* Properties of concurrent writers *)

\* C16: at every point of every interleaving of two index_job_document
\* calls, an id holds a document exactly when a write for it was accepted,
\* and that document is, field for field, the body of the accepted write
\* that completed last.
C16_LastCompletedWriteWins ==
    \A id \in JobIds :
       /\ id \in DOMAIN jobIndex <=> cw.last[id] # NoWrite
       /\ id \in DOMAIN jobIndex => jobIndex[id] = cw.last[id].body

\* Both writers wrote the same id; writer 1's first write was rejected and
\* its retry completed after the write of writer 2.
C16_Witness ==
    /\ \A w \in Writers : cw.proc[w].pc = "done" /\ cw.proc[w].outcome = "returned"
    /\ cw.proc[1].job_id = cw.proc[2].job_id
    /\ cw.proc[1].writes = 2
    /\ ValidVector(cw.proc[2].document.job_embedding)
    /\ cw.last[cw.proc[1].job_id].writer = 1
    /\ jobIndex[cw.proc[1].job_id].scraped_date = 1
    /\ jobIndex[cw.proc[1].job_id].job_embedding = ABSENT

----------------------------------------------------------------------------
(* Properties of the vectors, the texts and the state of the service *)

\* An attempt of a generate_embedding call is made in this step.
GenerateAttempt ==
    /\ emb.op = "generate"
    /\ emb.pc = "calling"
    /\ emb'.calls # emb.calls

C17_Step ==
    GenerateAttempt
    => /\ emb'.outcome = "returned" <=> ValidVector(emb'.embedding)
       /\ ~ValidVector(emb'.embedding)
          => IF emb.attempt < 2
             THEN /\ emb'.pc = "calling"
                  /\ emb'.attempt = emb.attempt + 1
                  /\ emb'.outcome = "none"
             ELSE /\ emb'.pc = "done"
                  /\ emb'.outcome = "raised"

\* C17: what generate_embedding returns is a non-empty list of numbers
\* without a null; an attempt whose raw result is missing, no list, empty,
\* or holds a null or a non-number is a failed attempt: it is followed by
\* another attempt, or after the third by the error.
C17_OnlyValidVectorsReturned == [][C17_Step]_vars

\* A vector returned on the second attempt, after a refused raw result.
C17_Witness ==
    /\ emb.op = "generate"
    /\ emb.pc = "done"
    /\ emb.outcome = "returned"
    /\ Len(emb.calls) = 2
    /\ ValidVector(emb.embedding)

\* C18: the text generate_embedding submits has at most 8003 characters; a
\* stripped text of at most 8000 characters is submitted whole and without
\* marker, a longer one as its first 8000 characters and the marker; so a
\* CV text of 8003 characters from the CV reader is submitted as 8003.
C18_SubmittedTextBounded ==
    (emb.op = "generate" /\ emb.calls # <<>>)
    => /\ emb.sent <= 8003
       /\ emb.text.stripped <= 8000
          => /\ emb.sent = emb.text.stripped
             /\ emb.kept = emb.text.stripped
             /\ ~emb.marker
       /\ emb.text.stripped > 8000
          => /\ emb.sent = 8003
             /\ emb.kept = 8000
             /\ emb.marker

\* A CV text the CV reader already cut to 8003 characters was submitted.
C18_Witness ==
    /\ emb.op = "generate"
    /\ emb.calls # <<>>
    /\ emb.text.stripped = 8003
    /\ emb.sent = 8003

C19_Step ==
    svc.constructed
    => /\ svc' = svc
       /\ (GenerateAttempt /\ ValidVector(emb'.embedding))
          => emb'.outcome = "returned"

\* C19: once the service is constructed no step of a generate_embedding call
\* changes current_model or embedding_dims, and a validated vector is
\* returned whatever its length.
C19_ServiceStateFrozen == [][C19_Step]_vars

\* A vector whose length differs from embedding_dims was returned.
C19_Witness ==
    /\ svc.constructed
    /\ emb.op = "generate"
    /\ emb.outcome = "returned"
    /\ Len(emb.embedding.items) # svc.embedding_dims

\* The probes of a construction that went through k attempts: the model ids
\* in their listed order, each 3 times.
ProbeOrder(k) == [i \in 1..k |-> model_ids[((i - 1) \div 3) + 1]]

\* C30: the construction probes the model ids in their listed order, each
\* at most 3 times, and ends at the first probe that gives a valid vector:
\* the instance then has that model as current_model and the length of
\* that vector as embedding_dims.  When the third probe of the last model
\* has failed the constructor raises and there is no instance.  So an
\* instance that is constructed has a current_model of the list and an
\* embedding_dims of at least 1, and before that both are unset.
C30_ConstructionPicksFirstValidModel ==
    /\ emb.op = "init"
       => /\ Len(emb.calls) <= 3 * Len(model_ids)
          /\ emb.calls = ProbeOrder(Len(emb.calls))
          /\ ValidVector(emb.embedding)
             => /\ emb.pc = "done"
                /\ emb.outcome = "returned"
                /\ svc.constructed
                /\ svc.current_model = emb.calls[Len(emb.calls)]
                /\ svc.embedding_dims = Len(emb.embedding.items)
          /\ ~ValidVector(emb.embedding)
             => /\ ~svc.constructed
                /\ emb.outcome # "returned"
                /\ emb.pc = "done" <=> Len(emb.calls) = 3 * Len(model_ids)
                /\ emb.pc = "done" => emb.outcome = "raised"
    /\ svc.constructed
       => /\ \E i \in 1..Len(model_ids) : svc.current_model = model_ids[i]
          /\ svc.embedding_dims >= 1
    /\ ~svc.constructed => svc = NoService

\* The three probes of the preferred model failed and the second probe of
\* the fallback model gave a vector: the instance has the fallback model and
\* the length of that vector.
C30_Witness ==
    /\ emb.op = "init"
    /\ emb.pc = "done"
    /\ emb.outcome = "returned"
    /\ emb.calls = <<model_ids[1], model_ids[1], model_ids[1], model_ids[2], model_ids[2]>>
    /\ svc.constructed
    /\ svc.current_model = model_ids[2]
    /\ svc.embedding_dims = Len(emb.embedding.items)

----------------------------------------------------------------------------
(* Properties of the scraped documents *)

\* C20: every posting the scraper has persisted carries an embedding_status,
\* and it holds job_embedding exactly when that status is 'success'; so a
\* posting whose embedding was not generated or was dropped names a reason
\* that is not 'success'.
C20_StatusTellsEmbedding ==
    \A id \in DOMAIN jobIndex :
       /\ jobIndex[id].embedding_status # "absent"
       /\ jobIndex[id].job_embedding # ABSENT <=> jobIndex[id].embedding_status = "success"
       /\ jobIndex[id].job_embedding # ABSENT => ValidVector(jobIndex[id].job_embedding)

\* A posting whose valid embedding was dropped by the retry, next to one
\* stored with its embedding.
C20_Witness ==
    /\ \E id \in DOMAIN jobIndex :
          jobIndex[id].embedding_status = "removed_due_to_indexing_error"
    /\ \E id \in DOMAIN jobIndex :
          jobIndex[id].embedding_status = "success"
    /\ ValidVector(scr.generated)
    /\ jobCall.outcome = "returned"
    /\ Len(jobCall.writes) = 2

----------------------------------------------------------------------------
(* Properties of the Lambda entry point *)

\* C21: every invocation of lambda_handler returns a response with a status
\* code and a serialized body, no exception reaches the caller, and every
\* response with a 4xx or 5xx status code has an 'error' key in its body.
C21_UniformEnvelope ==
    lam.route # "none" =>
        /\ ~lam.raised
        /\ lam.statusCode \in 100..599
        /\ (lam.statusCode >= 400 => "error" \in lam.body)

\* C22: a CV-file-arrived event whose records are well formed, handled
\* while the store and the embedding provider work, is answered with a
\* success response that lists the processed files.
C22_CvEventProcessed ==
    (/\ lam.route = "handle_cv_processing"
     /\ \A i \in 1..Len(lam.event.Records) : lam.event.Records[i] = "well_formed"
     /\ lam.detail # "CVProcessor() raised")
        => /\ lam.statusCode = 200
           /\ "processed_files" \in lam.body

\* C23 as stated: the recommendation request asks the store for the number
\* of results the caller asked for, and answers with at most that many
\* recommendations, one per hit and in the order of the hits.
C23_AsksForRequestedLimit ==
    (/\ lam.route = "handle_recommendation_request"
     /\ lam.event.body.limit > 0
     /\ rec.search.outcome # "none")
        => /\ rec.search.size = lam.event.body.limit
           /\ Len(rec.recommendations) <= lam.event.body.limit
           /\ rec.status = 200 =>
                 /\ Len(rec.recommendations) = Len(rec.search.hits)
                 /\ \A i \in 1..Len(rec.search.hits) :
                       rec.recommendations[i].job_id = rec.search.hits[i]._id

\* C23, amended: whatever the request says, the recommendation request asks
\* the store for 10 results, and a success response has one recommendation
\* per hit, at most 10, in the order of the hits.
C23_Amended ==
    (lam.route = "handle_recommendation_request" /\ rec.search.outcome # "none")
        => /\ rec.search.size = 10
           /\ rec.status = 200 =>
                 /\ Len(rec.recommendations) = Len(rec.search.hits)
                 /\ Len(rec.recommendations) <= 10
                 /\ \A i \in 1..Len(rec.search.hits) :
                       rec.recommendations[i].job_id = rec.search.hits[i]._id

\* A request that asked for one result was answered with the two hits of
\* the store, in their order.
C23_Witness ==
    /\ lam.route = "handle_recommendation_request"
    /\ lam.event.body.limit = 1
    /\ rec.status = 200
    /\ Len(rec.search.hits) = 2
    /\ rec.search.hits[1]._id # rec.search.hits[2]._id
    /\ Len(rec.recommendations) = 2

----------------------------------------------------------------------------
(* Properties of _extract_experience_level *)

\* C25: the level is 'senior' when a word of the text has a seniority
\* keyword in it, whether or not another has a junior keyword; 'junior' when
\* a word has a junior keyword and none has a seniority keyword; 'mid' when
\* no word has a keyword; so it is always one of the three.
C25_SeniorWins ==
    lvl.experience_level # "none" =>
        LET senior == \E i \in 1..Len(lvl.words) : lvl.words[i].senior
            junior == \E i \in 1..Len(lvl.words) : lvl.words[i].junior
        IN  /\ lvl.experience_level \in {"junior", "mid", "senior"}
            /\ lvl.experience_level = "senior" <=> senior
            /\ lvl.experience_level = "junior" <=> (junior /\ ~senior)
            /\ lvl.experience_level = "mid" <=> (~junior /\ ~senior)

\* A text with a junior keyword and, after it, a seniority keyword in
\* capitals was classified 'senior'.
C25_Witness ==
    /\ Len(lvl.words) = 2
    /\ lvl.words[1].junior
    /\ lvl.words[2].chars = <<"L", "E", "A", "D">>
    /\ lvl.experience_level = "senior"

----------------------------------------------------------------------------
(* Properties of the candidate lookup *)

\* C28: when the lookup of the candidate finds no cv index, finds no
\* matching document, or meets a failing store call, the recommendation
\* request is answered 404 'CV not found', never with a 5xx.
C28_LookupFailureIsNotFound ==
    rec.lookup \in {"index_missing", "no_match", "store_error"} =>
        /\ rec.status = 404
        /\ rec.error = "CV not found for this user. Please upload your CV first."
        /\ rec.search = NoSearch

\* The candidate has a profile, a store call of the lookup failed, and the
\* request was answered 404.
C28_Witness ==
    /\ rec.lookup = "store_error"
    /\ rec.user_id \in DOMAIN cvIndex
    /\ rec.status = 404

----------------------------------------------------------------------------
(* Frame properties of the writers *)

\* C29: after index_job_document or index_cv_document returns or raises,
\* the caller's document has the keys and values it had before the call,
\* its embedding and embedding_status included.
C29_CallerDocumentUntouched ==
    /\ jobCall.outcome # "none" => jobCall.caller_document = jobCall.document
    /\ cvCall.outcome # "none" => cvCall.caller_document = cvCall.document

\* index_job_document stripped an invalid embedding from what it wrote, and
\* the caller's document still has it.
C29_Witness ==
    /\ jobCall.outcome = "returned"
    /\ jobCall.document.job_embedding # ABSENT
    /\ ~ValidVector(jobCall.document.job_embedding)
    /\ jobCall.writes[1].job_embedding = ABSENT
    /\ jobCall.writes[1].embedding_status = "invalid_embedding_removed"
    /\ jobCall.caller_document.job_embedding = jobCall.document.job_embedding
    /\ jobCall.caller_document.embedding_status = jobCall.document.embedding_status

----------------------------------------------------------------------------
(* Properties of process_cv_record *)

\* C24 as stated: the timestamp of a stored profile never changes, whatever
\* is done later, re-processing of the candidate's CV included.
C24_TimestampNeverChanges ==
    [][\A id \in DOMAIN cvIndex :
          /\ id \in DOMAIN cvIndex'
          /\ cvIndex'[id].timestamp = cvIndex[id].timestamp]_vars

C24_Step ==
    /\ \A id \in DOMAIN cvIndex :
          /\ id \in DOMAIN cvIndex'
          /\ cvIndex'[id] # cvIndex[id] =>
                /\ cvp'.status = "success"
                /\ cvp'.user_id = id
                /\ cvp'.now >= cvIndex[id].timestamp
    /\ (cvp' # cvp /\ cvp'.status = "success") =>
          /\ cvp'.user_id \in DOMAIN cvIndex'
          /\ cvIndex'[cvp'.user_id].timestamp = cvp'.now

\* C24, amended: a profile stays stored, and only a successful processing of
\* a CV for the same candidate id changes it; that write sets the timestamp
\* to the time of the processing, so re-processing replaces the timestamp
\* with a later (or equal) one.
C24_Amended == [][C24_Step]_vars

\* A CV was processed again for a candidate that had a profile, at a later
\* time, and the stored timestamp is the later one.
C24_Witness ==
    /\ cvp.status = "success"
    /\ cvp.opensearch_result = "updated"
    /\ cvp.now > 1
    /\ cvIndex[cvp.user_id].timestamp = cvp.now

----------------------------------------------------------------------------
(* Properties of the scraping loop *)

C26_Step ==
    /\ (bat.pc = "loop" /\ bat.pos < bat.n) =>
          /\ bat'.pos = bat.pos + 1
          /\ bat'.pc = "loop"
          /\ (/\ bat'.last.processed
              /\ bat'.last.text_length >= 20
              /\ bat'.last.generated.ty = "exception") =>
                /\ bat'.last.written
                /\ jobCall'.job_id = bat'.last.job_id
                /\ \A i \in 1..Len(jobCall'.writes) :
                      jobCall'.writes[i].job_embedding.ty = "absent"
                /\ jobCall'.outcome = "returned" =>
                      /\ bat'.last.job_id \in DOMAIN jobIndex'
                      /\ jobIndex'[bat'.last.job_id].job_embedding.ty = "absent"
    /\ bat'.pc = "done" => bat'.pos = bat'.n

\* C26: in both scraping loops a job whose embedding generation or index
\* write failed does not stop the loop: the next job is taken, and the run
\* ends only after the last job of the batch; a job whose embedding
\* generation raised is still handed to the store, without an embedding
\* field, and is stored without one when the store accepts it.
C26_FailuresDoNotStopTheBatch == [][C26_Step]_vars

\* A run of two jobs is over: the write of the first raised, the second
\* job's embedding generation raised and it was stored without a vector.
C26_Witness ==
    /\ bat.pc = "done"
    /\ bat.n = 2
    /\ bat.processed_jobs = 2
    /\ bat.persisted = 1
    /\ bat.last.processed
    /\ ~bat.last.raised
    /\ bat.last.text_length >= 20
    /\ bat.last.generated.ty = "exception"
    /\ bat.last.job_id \in DOMAIN jobIndex
    /\ jobIndex[bat.last.job_id].job_embedding.ty = "absent"

\* C27: in the result of scrape_and_embed_jobs every job of the run is
\* counted once in embedding_success or embedding_failures, and
\* successfully_processed is the number of documents the store accepted.
C27_CountersConsistent ==
    (bat.pc = "done" /\ bat.op = "scrape_and_embed_jobs") =>
        /\ bat.embedding_success + bat.embedding_failures = bat.total
        /\ bat.processed_jobs = bat.persisted

====
